---- MODULE Spec2Model ----
(***************************************************************************)
(* Model of validations_libs.validation_actions.ValidationActions:         *)
(* selection of the validations to run, skip-list resolution, and the      *)
(* dispatch loop of run_validations.                                       *)
(*                                                                         *)
(* Strings whose content the code inspects (host limits, skipped hosts)    *)
(* are sequences of one-character strings, so that split(','), join and    *)
(* the substring test `in` are computed, not assumed.  Python's None is    *)
(* the one-element sequence <<"None">>, which is no character string.      *)
(***************************************************************************)
EXTENDS Integers, Sequences, FiniteSets, TLC

VARIABLES pc, req, playbooks, idx, results, calls, workspaces, nextUuid,
          logs, ret, err, lookups, records, ninv, files, values,
          written, client, other

vars == <<pc, req, playbooks, idx, results, calls, workspaces, nextUuid,
          logs, ret, err, lookups, records, ninv, files, values,
          written, client, other>>

----------------------------------------------------------------------------
(* Bounds of the model *)

\* longest validation_name list a request carries
MaxNames == 2
\* most comma-separated tokens in a limit_hosts
MaxTokens == 3
\* most calls of run_validations made one after the other
MaxInvocations == 2
\* most log files in the log directory
MaxLogs == 2

----------------------------------------------------------------------------
(* Python values *)

None == <<"None">>
NoneId == "None"
ALL == <<"A", "L", "L">>

\* truth value of a str-or-None (None and '' are falsy)
StrTruthy(s) == s # None /\ s # <<>>

\* truth value of a list/dict-or-None given as [isNone, d]
ObjTruthy(o) == ~o.isNone /\ DOMAIN o.d # {}

\* dict.get(key): the value, or None when the key is absent
Get(d, key) == IF key \in DOMAIN d THEN d[key] ELSE None

\* sub in s, for str
IsSubstr(sub, s) ==
    \E i \in 0..(Len(s) - Len(sub)) : SubSeq(s, i + 1, i + Len(sub)) = sub

FirstComma(s) == CHOOSE i \in 1..Len(s) :
                     s[i] = "," /\ \A j \in 1..(i - 1) : s[j] # ","

RECURSIVE Split(_)
\* s.split(',')
Split(s) ==
    IF \A i \in 1..Len(s) : s[i] # ","
    THEN <<s>>
    ELSE <<SubSeq(s, 1, FirstComma(s) - 1)>>
             \o Split(SubSeq(s, FirstComma(s) + 1, Len(s)))

RECURSIVE Join(_)
\* ','.join(ts)
Join(ts) ==
    IF ts = <<>> THEN <<>>
    ELSE IF Len(ts) = 1 THEN ts[1]
    ELSE ts[1] \o <<",">> \o Join(Tail(ts))

\* '!{}'.format(h)
Bang(h) == <<"!">> \o h

----------------------------------------------------------------------------
(* The validations on disk *)

\* ValidationActions.validation_path, used when validations_dir is not given
DefaultValidationDir == "/usr/share/validations"
OtherValidationDir == "/tmp/foo"

\* The validation playbooks of a directory, in listing order: the id is the
\* file name without its extension, groups is the metadata's group list.
Disk(path) ==
    IF path = DefaultValidationDir
    THEN << [id |-> "ntp", groups |-> {"prep"}],
            [id |-> "foo", groups |-> {"post"}],
            [id |-> "bar", groups |-> {"prep", "post"}] >>
    ELSE << [id |-> "foo", groups |-> {"post"}] >>

Range(f) == {f[i] : i \in DOMAIN f}

\* a playbook path: directory, file name without extension, extension
Path(dir, stem, ext) == [dir |-> dir, stem |-> stem, ext |-> ext]

\* os.path.basename(os.path.splitext(playbook)[0])
PlayName(playbook) == playbook.stem

\* v_utils.parse_all_validations_on_disk(path, groups): the metadata of the
\* validations of path that belong to one of groups
parse_all_validations_on_disk(path, groups) ==
    LET InGroups(u) == u.groups \cap Range(groups) # {}
    IN  SelectSeq(Disk(path), InGroups)

\* v_utils.get_validations_playbook(path, validation_id, groups): the paths
\* of the playbooks of path named in validation_id (and in groups, if given)
get_validations_playbook(path, validation_id, groups) ==
    LET Wanted(u) == /\ u.id \in Range(validation_id)
                     /\ (~ObjTruthy(groups) \/ u.groups \cap Range(groups.d) # {})
        found == SelectSeq(Disk(path), Wanted)
    IN  [i \in 1..Len(found) |-> Path(path, found[i].id, ".yaml")]

----------------------------------------------------------------------------
(* Selection: run_validations, up to the dispatch loop *)

NoError == [type |-> "none", msg |-> "", unknown |-> {}, dir |-> NoneId]

Selected(pbs) == [ok |-> TRUE, playbooks |-> pbs, err |-> NoError]
Raised(e) == [ok |-> FALSE, playbooks |-> <<>>, err |-> e]

\* validations_dir if validations_dir else self.validation_path
EffectiveDir(validations_dir) ==
    IF validations_dir # NoneId /\ validations_dir # ""
    THEN validations_dir ELSE DefaultValidationDir

\* the `if group:` branch: one '<id>.yaml' per validation of the groups
GroupBranch(validations_dir, group) ==
    LET validations == parse_all_validations_on_disk(validations_dir, group.d)
    IN  Selected([i \in 1..Len(validations) |->
                      Path("", validations[i].id, ".yaml")])

\* unknown_validation without the subtraction of the playbooks found
unknown_validation_all(validation_name, pbs) ==
    Range(validation_name)

\* list(set(validation_name) - set(p)), p the base names of the playbooks found
unknown_validation(validation_name, pbs) ==
    Range(validation_name) \ {PlayName(pbs[i]) : i \in DOMAIN pbs}

\* the `elif validation_name:` branch
NamesBranch(validations_dir, validation_name, group) ==
    LET pbs == get_validations_playbook(validations_dir, validation_name.d,
                                        group)
    IN  IF pbs = <<>> \/ Len(validation_name.d) # Len(pbs)
        THEN Raised([type |-> "RuntimeError",
                     msg |-> "Validation {} not found in {}.",
                     unknown |-> unknown_validation(validation_name.d, pbs),
                     dir |-> validations_dir])
        ELSE Selected(pbs)

\* the `else:` branch returning an empty selection instead of raising
NoSelectionBranch_empty == Selected(<<>>)

\* the `else:` branch
NoSelectionBranch ==
    Raised([type |-> "RuntimeError", msg |-> "No validations found",
            unknown |-> {}, dir |-> NoneId])

\* Select with the two tests in the other order: names before groups
Select_names_first(r) ==
    LET validations_dir == EffectiveDir(r.validations_dir)
    IN  IF ObjTruthy(r.validation_name)
        THEN NamesBranch(validations_dir, r.validation_name, r.group)
        ELSE IF ObjTruthy(r.group)
        THEN GroupBranch(validations_dir, r.group)
        ELSE NoSelectionBranch

\* lines 295-327 of run_validations: the playbooks to run, or the error
Select(r) ==
    LET validations_dir == EffectiveDir(r.validations_dir)
    IN  IF ObjTruthy(r.group)
        THEN GroupBranch(validations_dir, r.group)
        ELSE IF ObjTruthy(r.validation_name)
        THEN NamesBranch(validations_dir, r.validation_name, r.group)
        ELSE NoSelectionBranch

----------------------------------------------------------------------------
(* Skip resolution *)

\* _skip_hosts that treats only a missing hosts value as "skip everywhere"
_skip_hosts_all_is_a_host(skip_list, playbook, limit_hosts) ==
    LET hosts == Get(skip_list.d[playbook], "hosts")
    IN  IF hosts = None
        THEN None
        ELSE LET kept(limit) == ~IsSubstr(hosts, limit)
             IN  Join(<<Bang(hosts)>> \o
                      (IF StrTruthy(limit_hosts)
                       THEN SelectSeq(Split(limit_hosts), kept)
                       ELSE <<>>))

\* _skip_hosts that treats only 'ALL' as "skip everywhere"
_skip_hosts_none_is_a_host(skip_list, playbook, limit_hosts) ==
    LET hosts == Get(skip_list.d[playbook], "hosts")
    IN  IF hosts = ALL
        THEN None
        ELSE LET kept(limit) == ~IsSubstr(hosts, limit)
             IN  Join(<<Bang(hosts)>> \o
                      (IF StrTruthy(limit_hosts)
                       THEN SelectSeq(Split(limit_hosts), kept)
                       ELSE <<>>))

\* _skip_hosts that appends the user's limit without filtering it
_skip_hosts_unfiltered(skip_list, playbook, limit_hosts) ==
    LET hosts == Get(skip_list.d[playbook], "hosts")
    IN  IF hosts = ALL \/ hosts = None
        THEN None
        ELSE Join(<<Bang(hosts)>> \o
                  (IF StrTruthy(limit_hosts)
                   THEN Split(limit_hosts)
                   ELSE <<>>))

\* ValidationActions._skip_hosts
_skip_hosts(skip_list, playbook, limit_hosts) ==
    LET hosts == Get(skip_list.d[playbook], "hosts")
    IN  IF hosts = ALL \/ hosts = None
        THEN None
        ELSE LET kept(limit) == ~IsSubstr(hosts, limit)
             IN  Join(<<Bang(hosts)>> \o
                      (IF StrTruthy(limit_hosts)
                       THEN SelectSeq(Split(limit_hosts), kept)
                       ELSE <<>>))

\* _skip_playbook that forgets the caller's limit when no rule applies
_skip_playbook_drops_limit(skip_list, playbook, limit_hosts) ==
    IF ObjTruthy(skip_list) /\ playbook \in DOMAIN skip_list.d
    THEN LET _hosts == _skip_hosts(skip_list, playbook, limit_hosts)
         IN  IF StrTruthy(_hosts)
             THEN <<playbook, _hosts>>
             ELSE <<NoneId, _hosts>>
    ELSE <<playbook, None>>

\* ValidationActions._skip_playbook: <<playbook or None, hosts>>
_skip_playbook(skip_list, playbook, limit_hosts) ==
    IF ObjTruthy(skip_list) /\ playbook \in DOMAIN skip_list.d
    THEN LET _hosts == _skip_hosts(skip_list, playbook, limit_hosts)
         IN  IF StrTruthy(_hosts)
             THEN <<playbook, _hosts>>
             ELSE <<NoneId, _hosts>>
    ELSE <<playbook, limit_hosts>>

----------------------------------------------------------------------------
(* The collaborators of the dispatch loop *)

\* constants.VALIDATIONS_LOG_BASEDIR, the directory ValidationLogs() reads
DefaultLogDir == "/var/log/validations"
OtherLogDir == "/tmp/logs"

\* what Ansible.run can return for a playbook besides its name: rc and status
EngineOutcomes ==
    { [rc |-> 0, status |-> "successful", log |-> "PASSED"],
      [rc |-> 2, status |-> "failed", log |-> "FAILED"] }

\* _playbook.split('.')[0]
BeforeDot(playbook) == Path(playbook.dir, playbook.stem, "")

\* the directory the engine writes the run's log file to
EngineLogDir(log_path) ==
    IF log_path # NoneId /\ log_path # "" THEN log_path ELSE DefaultLogDir

\* the name Ansible.run returns for the playbook it was given
EngineName(playbook) == Path("", playbook.stem, playbook.ext)

\* A play of a log file: its id, its validation_id, the start and the
\* time_elapsed of its duration; absent is the set of the keys it lacks
Play(id, validation_id, start, time_elapsed) ==
    [id |-> id, validation_id |-> validation_id, start |-> start,
     time_elapsed |-> time_elapsed, absent |-> {}]
\* the play without the key k
Without(play, k) == [play EXCEPT !.absent = @ \cup {k}]
\* dict.get(k): the value of the key, None when the key is absent
PlayGet(play, k) == IF k \in play.absent THEN NoneId ELSE play[k]

\* A log file of the log directory dir, named after the run id uuid and the
\* validation validation_id, with the extension ext: wellformed (it parses),
\* its plays, its per-host result map as a sequence of [host, status] in the
\* map's order, and its tasks
LogFile(uuid, dir, validation_id, ext, wellformed, plays, hosts, tasks) ==
    [uuid |-> uuid, dir |-> dir, validation_id |-> validation_id,
     ext |-> ext, wellformed |-> wellformed, plays |-> plays,
     hosts |-> hosts, tasks |-> tasks]

\* the log file the engine writes for a run that ended with status
EngineLog(uuid, dir, validation_id, status) ==
    LogFile(uuid, dir, validation_id, "json", TRUE,
            <<Play(uuid, validation_id, "start", "elapsed")>>,
            <<[host |-> "localhost", status |-> status]>>, <<>>)

\* ValidationLog.get_status: PASSED when every host of the per-host result
\* map is PASSED, else the status of the first host that is not
get_status_of(log) ==
    IF \A i \in DOMAIN log.hosts : log.hosts[i].status = "PASSED"
    THEN "PASSED"
    ELSE log.hosts[CHOOSE i \in DOMAIN log.hosts :
                     /\ log.hosts[i].status # "PASSED"
                     /\ \A j \in 1..(i - 1) : log.hosts[j].status = "PASSED"
                  ].status

\* ValidationLogs().get_results(uuid): one row per run id that has a log
\* file in the default log directory, in the order of the ids
get_results(uuid, store) ==
    LET HasLog(u) == \E l \in Range(store) :
                         l.uuid = u /\ l.dir = DefaultLogDir
        LogOf(u) == CHOOSE l \in Range(store) :
                         l.uuid = u /\ l.dir = DefaultLogDir
        found == SelectSeq(uuid, HasLog)
    IN  [i \in 1..Len(found) |->
            [UUID |-> found[i],
             Validations |-> LogOf(found[i]).validation_id,
             Status |-> get_status_of(LogOf(found[i]))]]

\* the state of the command line client when no command is running, and of
\* the other call when no other call is running
NoClient == [output_log |-> NoneId, exited |-> FALSE, code |-> 0,
             stderr |-> <<>>, stdout |-> <<>>]
NoOther == [pc |-> "none"]

----------------------------------------------------------------------------
(* The arguments of a call *)

\* the host names of the model: 'a', 'ab' and 'b'
Hosts == { <<"a">>, <<"a", "b">>, <<"b">> }
\* the tokens a limit_hosts is made of: hosts, excluded hosts, the empty token
Tokens == Hosts \cup { Bang(<<"a">>), <<>> }

SeqsUpTo(S, n) == UNION {[1..k -> S] : k \in 0..n}

\* the limit_hosts values of at most n tokens, and None
Limits(n) == {None} \cup {Join(ts) : ts \in SeqsUpTo(Tokens, n)}

Rule(hosts) == [hosts |-> hosts, reason |-> None, lp |-> None]
RuleWithoutHosts == [reason |-> None, lp |-> None]
\* the skip rules: skip on ALL hosts, hosts None or absent, or one host
Rules == {Rule(ALL), Rule(None), RuleWithoutHosts}
             \cup {Rule(h) : h \in {<<"a">>, <<"a", "b">>}}

UnitIds == {"ntp", "foo", "bar"}
PyNone == [isNone |-> TRUE, d |-> <<>>]
Py(d) == [isNone |-> FALSE, d |-> d]

\* skip_list: None, {} or a dict with a rule for one validation
SkipLists == {PyNone, Py(<<>>)} \cup
             {Py([u \in {v} |-> r]) : v \in UnitIds, r \in Rules}

NameUniverse == {"ntp", "foo", "ghost"}
NameLists == {PyNone} \cup {Py(ns) : ns \in SeqsUpTo(NameUniverse, MaxNames)}
GroupLists == {PyNone, Py(<<"prep">>), Py(<<"nogroup">>)}

Request(names, group, vdir, skip, limit, async, logp) ==
    [validation_name |-> names, group |-> group, validations_dir |-> vdir,
     skip_list |-> skip, limit_hosts |-> limit, run_async |-> async,
     log_path |-> logp]

\* The requests of Spec: every way of selecting, with or without a skip rule,
\* with no host limit or one host
Requests ==
    { Request(n, g, v, s, l, a, lp) :
        n \in NameLists, g \in GroupLists,
        v \in {NoneId, OtherValidationDir},
        s \in SkipLists, l \in {None, <<"a">>},
        a \in BOOLEAN, lp \in {NoneId, OtherLogDir} }

\* The requests of SpecSkip: every skip rule against every host limit, for
\* validations selected by name or by group
SkipRequests ==
    { Request(n, g, NoneId, s, l, a, NoneId) :
        n \in {PyNone, Py(<<"ntp">>), Py(<<"foo", "ntp">>)},
        g \in {PyNone, Py(<<"prep">>)},
        s \in SkipLists, l \in Limits(MaxTokens),
        a \in BOOLEAN }

\* The requests of SpecSeq: calls that follow one another, for one or two
\* validations, one of them skipped or not
SeqRequests ==
    { Request(Py(<<"ntp">>), g, NoneId, s, None, a, NoneId) :
        g \in {PyNone, Py(<<"prep">>)},
        s \in {PyNone, Py([u \in {"ntp"} |-> Rule(ALL)])},
        a \in BOOLEAN }

----------------------------------------------------------------------------
(* run_validations *)

InitWith(requests) ==
    /\ pc = "idle"
    /\ req \in requests
    /\ playbooks = <<>>
    /\ idx = 1
    /\ results = <<>>
    /\ calls = <<>>
    /\ workspaces = {}
    /\ nextUuid = 1
    /\ logs = <<>>
    /\ ret = <<>>
    /\ err = NoError
    /\ lookups = <<>>
    /\ records = <<>>
    /\ ninv = 1
    /\ files = <<>>
    /\ values = <<>>
    /\ written = <<>>
    /\ client = NoClient
    /\ other = NoOther

\* Start that runs the playbooks it could resolve before raising for the others
Start_runs_resolved_first ==
    /\ pc = "idle"
    /\ LET sel == Select(req)
           dir == EffectiveDir(req.validations_dir)
           pbs == IF ObjTruthy(req.validation_name)
                  THEN get_validations_playbook(dir, req.validation_name.d,
                                                req.group)
                  ELSE <<>>
       IN  /\ pc' = IF sel.ok THEN "loop" ELSE "raised"
           /\ playbooks' = sel.playbooks
           /\ err' = sel.err
           /\ calls' = IF sel.ok THEN calls
                       ELSE [i \in 1..Len(pbs) |->
                               [uuid |-> nextUuid + i - 1,
                                workdir |-> nextUuid + i - 1,
                                playbook |-> pbs[i], playbook_dir |-> dir,
                                limit_hosts |-> req.limit_hosts,
                                log_path |-> req.log_path,
                                run_async |-> req.run_async,
                                out |-> CHOOSE o \in EngineOutcomes : o.rc = 0]]
    /\ UNCHANGED <<req, idx, results, workspaces, nextUuid, logs, ret,
                   lookups, records, ninv,
                   files, values,
                   written, client, other>>

\* Start that leaves out the playbooks an earlier call has already run
Start_skips_already_run ==
    /\ pc = "idle"
    /\ LET sel == Select(req)
           Fresh(p) == \A i \in DOMAIN records :
                          records[i].playbook # EngineName(p)
       IN  /\ pc' = IF sel.ok THEN "loop" ELSE "raised"
           /\ playbooks' = SelectSeq(sel.playbooks, Fresh)
           /\ err' = sel.err
    /\ UNCHANGED <<req, idx, results, calls, workspaces, nextUuid, logs, ret,
                   lookups, records, ninv, files, values,
                   written, client, other>>

\* lines 295-327: build the list of playbooks, or raise
Start ==
    /\ pc = "idle"
    /\ LET sel == Select(req)
       IN  /\ pc' = IF sel.ok THEN "loop" ELSE "raised"
           /\ playbooks' = sel.playbooks
           /\ err' = sel.err
    /\ UNCHANGED <<req, idx, results, calls, workspaces, nextUuid, logs, ret,
                   lookups, records, ninv,
                   files, values,
                   written, client, other>>

\* lines 359-364: the run record appended to results
RunRecord(_playbook, _rc, _status, validation_uuid) ==
    [playbook |-> _playbook, rc_code |-> _rc, status |-> _status,
     validations |-> BeforeDot(_playbook), UUID |-> validation_uuid]

\* Run that raises when the engine reports a failure
Run_raises_on_failure ==
    /\ pc = "loop"
    /\ idx <= Len(playbooks)
    /\ LET playbook == playbooks[idx]
           sp == _skip_playbook(req.skip_list, PlayName(playbook),
                                req.limit_hosts)
           validation_uuid == nextUuid
       IN  /\ sp[1] # NoneId /\ sp[1] # ""
           /\ \E out \in EngineOutcomes :
                /\ workspaces' = workspaces \cup
                       {[uuid |-> validation_uuid, dir_path |-> req.log_path,
                         prefix |-> Path("", playbook.stem, playbook.ext)]}
                /\ calls' = Append(calls,
                       [uuid |-> validation_uuid, workdir |-> validation_uuid,
                        playbook |-> playbook,
                        playbook_dir |-> EffectiveDir(req.validations_dir),
                        limit_hosts |-> sp[2], log_path |-> req.log_path,
                        run_async |-> req.run_async, out |-> out])
                /\ logs' = IF req.run_async THEN logs
                           ELSE Append(logs,
                                  EngineLog(validation_uuid,
                                            EngineLogDir(req.log_path),
                                            PlayName(playbook), out.log))
                /\ LET record == RunRecord(EngineName(playbook), out.rc,
                                           out.status, validation_uuid)
                   IN  /\ results' = Append(results, record)
                       /\ records' = Append(records, record)
                /\ pc' = IF out.rc # 0 THEN "raised" ELSE pc
           /\ nextUuid' = nextUuid + 1
    /\ idx' = idx + 1
    /\ UNCHANGED <<req, playbooks, ret, err, lookups, ninv,
                   files, values,
                   written, client, other>>

\* Run that takes the run identifier without generating a new one
Run_reuses_uuid ==
    /\ pc = "loop"
    /\ idx <= Len(playbooks)
    /\ LET playbook == playbooks[idx]
           sp == _skip_playbook(req.skip_list, PlayName(playbook),
                                req.limit_hosts)
           validation_uuid == nextUuid
       IN  /\ sp[1] # NoneId /\ sp[1] # ""
           /\ \E out \in EngineOutcomes :
                /\ workspaces' = workspaces \cup
                       {[uuid |-> validation_uuid, dir_path |-> req.log_path,
                         prefix |-> Path("", playbook.stem, playbook.ext)]}
                /\ calls' = Append(calls,
                       [uuid |-> validation_uuid, workdir |-> validation_uuid,
                        playbook |-> playbook,
                        playbook_dir |-> EffectiveDir(req.validations_dir),
                        limit_hosts |-> sp[2], log_path |-> req.log_path,
                        run_async |-> req.run_async, out |-> out])
                /\ logs' = IF req.run_async THEN logs
                           ELSE Append(logs,
                                  EngineLog(validation_uuid,
                                            EngineLogDir(req.log_path),
                                            PlayName(playbook), out.log))
                /\ LET record == RunRecord(EngineName(playbook), out.rc,
                                           out.status, validation_uuid)
                   IN  /\ results' = Append(results, record)
                       /\ records' = Append(records, record)
           /\ nextUuid' = nextUuid
    /\ idx' = idx + 1
    /\ UNCHANGED <<pc, req, playbooks, ret, err, lookups, ninv,
                   files, values,
                   written, client, other>>

\* Run that keeps the limit computed for a playbook as the limit of the call
Run_overwrites_limit ==
    /\ pc = "loop"
    /\ idx <= Len(playbooks)
    /\ LET playbook == playbooks[idx]
           sp == _skip_playbook(req.skip_list, PlayName(playbook),
                                req.limit_hosts)
           validation_uuid == nextUuid
       IN  /\ sp[1] # NoneId /\ sp[1] # ""
           /\ \E out \in EngineOutcomes :
                /\ workspaces' = workspaces \cup
                       {[uuid |-> validation_uuid, dir_path |-> req.log_path,
                         prefix |-> Path("", playbook.stem, playbook.ext)]}
                /\ calls' = Append(calls,
                       [uuid |-> validation_uuid, workdir |-> validation_uuid,
                        playbook |-> playbook,
                        playbook_dir |-> EffectiveDir(req.validations_dir),
                        limit_hosts |-> sp[2], log_path |-> req.log_path,
                        run_async |-> req.run_async, out |-> out])
                /\ logs' = IF req.run_async THEN logs
                           ELSE Append(logs,
                                  EngineLog(validation_uuid,
                                            EngineLogDir(req.log_path),
                                            PlayName(playbook), out.log))
                /\ LET record == RunRecord(EngineName(playbook), out.rc,
                                           out.status, validation_uuid)
                   IN  /\ results' = Append(results, record)
                       /\ records' = Append(records, record)
           /\ nextUuid' = nextUuid + 1
    /\ idx' = idx + 1
    /\ req' = [req EXCEPT !.limit_hosts =
                  _skip_playbook(req.skip_list, PlayName(playbooks[idx]),
                                 req.limit_hosts)[2]]
    /\ UNCHANGED <<pc, playbooks, ret, err, lookups, ninv,
                   files, values,
                   written, client, other>>

\* Run whose engine writes its log over the newest log of the directory
Run_rewrites_log ==
    /\ pc = "loop"
    /\ idx <= Len(playbooks)
    /\ LET playbook == playbooks[idx]
           sp == _skip_playbook(req.skip_list, PlayName(playbook),
                                req.limit_hosts)
           validation_uuid == nextUuid
       IN  /\ sp[1] # NoneId /\ sp[1] # ""
           /\ \E out \in EngineOutcomes :
                /\ workspaces' = workspaces \cup
                       {[uuid |-> validation_uuid, dir_path |-> req.log_path,
                         prefix |-> Path("", playbook.stem, playbook.ext)]}
                /\ calls' = Append(calls,
                       [uuid |-> validation_uuid, workdir |-> validation_uuid,
                        playbook |-> playbook,
                        playbook_dir |-> EffectiveDir(req.validations_dir),
                        limit_hosts |-> sp[2], log_path |-> req.log_path,
                        run_async |-> req.run_async, out |-> out])
                /\ LET log == EngineLog(validation_uuid,
                                        EngineLogDir(req.log_path),
                                        PlayName(playbook), out.log)
                   IN  logs' = IF req.run_async THEN logs
                               ELSE IF logs = <<>> THEN <<log>>
                               ELSE [logs EXCEPT ![Len(logs)] = log]
                /\ LET record == RunRecord(EngineName(playbook), out.rc,
                                           out.status, validation_uuid)
                   IN  /\ results' = Append(results, record)
                       /\ records' = Append(records, record)
           /\ nextUuid' = nextUuid + 1
    /\ idx' = idx + 1
    /\ UNCHANGED <<pc, req, playbooks, ret, err, lookups, ninv,
                   files, values,
                   written, client, other>>

\* lines 331-366, one iteration for a playbook that is not skipped:
\* create_artifacts_dir, Ansible.run, results.append
Run ==
    /\ pc = "loop"
    /\ idx <= Len(playbooks)
    /\ LET playbook == playbooks[idx]
           sp == _skip_playbook(req.skip_list, PlayName(playbook),
                                req.limit_hosts)
           validation_uuid == nextUuid
       IN  /\ sp[1] # NoneId /\ sp[1] # ""
           /\ \E out \in EngineOutcomes :
                /\ workspaces' = workspaces \cup
                       {[uuid |-> validation_uuid, dir_path |-> req.log_path,
                         prefix |-> Path("", playbook.stem, playbook.ext)]}
                /\ calls' = Append(calls,
                       [uuid |-> validation_uuid, workdir |-> validation_uuid,
                        playbook |-> playbook,
                        playbook_dir |-> EffectiveDir(req.validations_dir),
                        limit_hosts |-> sp[2], log_path |-> req.log_path,
                        run_async |-> req.run_async, out |-> out])
                /\ logs' = IF req.run_async THEN logs
                           ELSE Append(logs,
                                  EngineLog(validation_uuid,
                                            EngineLogDir(req.log_path),
                                            PlayName(playbook), out.log))
                /\ LET record == RunRecord(EngineName(playbook), out.rc,
                                           out.status, validation_uuid)
                   IN  /\ results' = Append(results, record)
                       /\ records' = Append(records, record)
           /\ nextUuid' = nextUuid + 1
    /\ idx' = idx + 1
    /\ UNCHANGED <<pc, req, playbooks, ret, err, lookups, ninv,
                   files, values,
                   written, client, other>>

\* Skip that leaves the loop instead of continuing with the next playbook
Skip_breaks ==
    /\ pc = "loop"
    /\ idx <= Len(playbooks)
    /\ LET sp == _skip_playbook(req.skip_list, PlayName(playbooks[idx]),
                                req.limit_hosts)
       IN  sp[1] = NoneId \/ sp[1] = ""
    /\ idx' = Len(playbooks) + 1
    /\ UNCHANGED <<pc, req, playbooks, results, calls, workspaces, nextUuid,
                   logs, ret, err, lookups, records, ninv,
                   files, values,
                   written, client, other>>

\* lines 331-366, one iteration for a playbook the skip list rules out
Skip ==
    /\ pc = "loop"
    /\ idx <= Len(playbooks)
    /\ LET sp == _skip_playbook(req.skip_list, PlayName(playbooks[idx]),
                                req.limit_hosts)
       IN  sp[1] = NoneId \/ sp[1] = ""
    /\ idx' = idx + 1
    /\ UNCHANGED <<pc, req, playbooks, results, calls, workspaces, nextUuid,
                   logs, ret, err, lookups, records, ninv,
                   files, values,
                   written, client, other>>

\* Finish that asks for the results of the last run only
Finish_last_uuid_only ==
    /\ pc = "loop"
    /\ idx > Len(playbooks)
    /\ pc' = "returned"
    /\ LET uuid == IF results = <<>> THEN <<>>
                   ELSE <<results[Len(results)].UUID>>
       IN  IF req.run_async
           THEN ret' = results /\ lookups' = lookups
           ELSE /\ ret' = get_results(uuid, logs)
                /\ lookups' = Append(lookups,
                       [op |-> "get_results", dir |-> DefaultLogDir,
                        key |-> uuid])
    /\ UNCHANGED <<req, playbooks, idx, results, calls, workspaces, nextUuid,
                   logs, err, records, ninv,
                   files, values,
                   written, client, other>>

\* Finish that reads the results from the logs whatever run_async says
Finish_always_reads ==
    /\ pc = "loop"
    /\ idx > Len(playbooks)
    /\ pc' = "returned"
    /\ LET uuid == [i \in 1..Len(results) |-> results[i].UUID]
       IN  /\ ret' = get_results(uuid, logs)
           /\ lookups' = Append(lookups,
                  [op |-> "get_results", dir |-> DefaultLogDir, key |-> uuid])
    /\ UNCHANGED <<req, playbooks, idx, results, calls, workspaces, nextUuid,
                   logs, err, records, ninv,
                   files, values,
                   written, client, other>>

\* lines 368-373: return the run records, or the results read from the logs
Finish ==
    /\ pc = "loop"
    /\ idx > Len(playbooks)
    /\ pc' = "returned"
    /\ LET uuid == [i \in 1..Len(results) |-> results[i].UUID]
       IN  IF req.run_async
           THEN ret' = results /\ lookups' = lookups
           ELSE /\ ret' = get_results(uuid, logs)
                /\ lookups' = Append(lookups,
                       [op |-> "get_results", dir |-> DefaultLogDir,
                        key |-> uuid])
    /\ UNCHANGED <<req, playbooks, idx, results, calls, workspaces, nextUuid,
                   logs, err, records, ninv,
                   files, values,
                   written, client, other>>

Next == Start \/ Run \/ Skip \/ Finish

Init == InitWith(Requests)
Spec == Init /\ [][Next]_vars

InitSkip == InitWith(SkipRequests)
SpecSkip == InitSkip /\ [][Next]_vars

\* A further call of run_validations once the previous one has ended: the
\* workspaces, the run identifiers used and the log directory remain
Again ==
    /\ pc \in {"returned", "raised"}
    /\ ninv < MaxInvocations
    /\ ninv' = ninv + 1
    /\ pc' = "idle"
    /\ req' \in SeqRequests
    /\ playbooks' = <<>>
    /\ idx' = 1
    /\ results' = <<>>
    /\ calls' = <<>>
    /\ ret' = <<>>
    /\ err' = NoError
    /\ lookups' = <<>>
    /\ UNCHANGED <<workspaces, nextUuid, logs, records, files, values,
                   written, client, other>>

NextSeq == Start \/ Run \/ Skip \/ Finish \/ Again

InitSeq == InitWith(SeqRequests)
SpecSeq == InitSeq /\ [][NextSeq]_vars

----------------------------------------------------------------------------
(* The log directory read by show_history and get_status *)

\* ValidationLog.is_valid_format: the file parses and every play has an id,
\* a duration.start and a duration.time_elapsed
is_valid_format(log) ==
    /\ log.wellformed
    /\ \A i \in DOMAIN log.plays :
         log.plays[i].absent \cap {"id", "start", "time_elapsed"} = {}

\* ValidationLog.get_plays
get_plays(log) == log.plays
\* ValidationLog.get_tasks_data
get_tasks_data(log) == log.tasks

\* ValidationLogs(log_path).get_logfile_by_validation(validation_id)
get_logfile_by_validation(store, log_path, validation_id) ==
    LET Match(l) == l.dir = log_path /\ l.validation_id = validation_id
    IN  SelectSeq(store, Match)

\* ValidationLogs(log_path).get_logfile_by_uuid(uuid)
get_logfile_by_uuid(store, log_path, uuid) ==
    LET Match(l) == l.dir = log_path /\ l.uuid = uuid
    IN  SelectSeq(store, Match)

\* ValidationLogs(log_path).get_all_logfiles(extension)
get_all_logfiles(store, log_path, extension) ==
    LET Match(l) == l.dir = log_path /\ l.ext = extension
    IN  SelectSeq(store, Match)

\* a task of a log file: its name, its status and its hosts, a sequence of
\* [host, payload] in the order of the mapping
Task(name, status, hosts) == [name |-> name, status |-> status, hosts |-> hosts]
HostResult(host, payload) == [host |-> host, payload |-> payload]
HostStatus(host, status) == [host |-> host, status |-> status]

\* The log files a run id can have in the model: valid ones with one or two
\* plays and every kind of per-host map, one that does not parse, ones whose
\* play lacks its id, its start or its time_elapsed, one with another
\* extension and one in another directory
LogShapes(uuid) ==
    LET OnePlay(v) == <<Play(uuid, v, "start1", "elapsed1")>>
        TwoPlays(v) == <<Play(uuid, v, "start1", "elapsed1"),
                         Play(uuid, v, "start2", "elapsed2")>>
        PP == <<HostStatus("a", "PASSED"), HostStatus("b", "PASSED")>>
        PF == <<HostStatus("a", "PASSED"), HostStatus("b", "FAILED")>>
        SF == <<HostStatus("a", "SKIPPED"), HostStatus("b", "FAILED")>>
        Ok == <<Task("t1", "PASSED",
                     <<HostResult("a", "ok"), HostResult("b", "ok")>>)>>
        Mixed == <<Task("t1", "PASSED", <<HostResult("a", "ok")>>),
                   Task("t2", "FAILED",
                        <<HostResult("a", "msg1"), HostResult("b", "msg2")>>)>>
        Skipped == <<Task("t1", "SKIPPED", <<HostResult("a", "skip")>>),
                     Task("t2", "FAILED", <<HostResult("b", "msg2")>>)>>
        D == DefaultLogDir
    IN  { LogFile(uuid, D, "ntp", "json", TRUE, OnePlay("ntp"), PP, Ok),
          LogFile(uuid, D, "ntp", "json", TRUE, TwoPlays("ntp"), PF, Mixed),
          LogFile(uuid, D, "foo", "json", TRUE, OnePlay("foo"), SF, Skipped),
          LogFile(uuid, D, "ntp", "json", FALSE, <<>>, <<>>, <<>>),
          LogFile(uuid, D, "foo", "json", TRUE,
                  <<Without(Play(uuid, "foo", "start1", "elapsed1"), "id")>>,
                  PF, Mixed),
          LogFile(uuid, D, "ntp", "json", TRUE,
                  <<Without(Play(uuid, "ntp", "start1", "elapsed1"),
                            "start")>>,
                  PF, Mixed),
          LogFile(uuid, D, "foo", "json", TRUE,
                  <<Play(uuid, "foo", "start1", "elapsed1"),
                    Without(Play(uuid, "foo", "start2", "elapsed2"),
                            "time_elapsed")>>,
                  PP, Ok),
          LogFile(uuid, D, "ntp", "txt", TRUE, OnePlay("ntp"), PF, Mixed),
          LogFile(uuid, OtherLogDir, "ntp", "json", TRUE, OnePlay("ntp"),
                  PF, Mixed) }

\* The log directories of the model: at most MaxLogs files, the i-th one of
\* the run i
Stores ==
    UNION { { st \in [1..k -> UNION {LogShapes(i) : i \in 1..k}] :
                \A i \in 1..k : st[i].uuid = i } : k \in 0..MaxLogs }

----------------------------------------------------------------------------
(* show_history *)

\* a str argument, where a list or None can be given too
PyStr(str) == [isNone |-> FALSE, isStr |-> TRUE, d |-> str]
\* isinstance(o, list), for an argument that is not None
IsList(o) == "isStr" \notin DOMAIN o
\* truth value of a str, a list or None
ArgTruthy(o) ==
    IF o.isNone THEN FALSE
    ELSE IF IsList(o) THEN o.d # <<>> ELSE o.d # ""

HistoryRequest(validation_ids, extension, log_path) ==
    [validation_ids |-> validation_ids, extension |-> extension,
     log_path |-> log_path]

\* The requests of SpecHistory: no ids, one id as a str, lists of ids
HistoryRequests ==
    { HistoryRequest(v, "json", lp) :
        v \in {PyNone, Py(<<>>), PyStr("ntp"), Py(<<"ntp">>),
               Py(<<"foo", "ntp">>), Py(<<"ntp", "ntp">>)},
        lp \in {DefaultLogDir, OtherLogDir} }

\* the log files of the validations ids, in the order of ids
RECURSIVE ExtendByValidation(_, _, _)
ExtendByValidation(store, log_path, ids) ==
    IF ids = <<>> THEN <<>>
    ELSE get_logfile_by_validation(store, log_path, Head(ids))
           \o ExtendByValidation(store, log_path, Tail(ids))

column_name_history ==
    <<"UUID", "Validations", "Status", "Execution at", "Duration">>

\* HistoryCollect that reads every log file whatever validation_ids says
HistoryCollect_all_logs ==
    /\ pc = "idle"
    /\ files' = get_all_logfiles(logs, req.log_path, req.extension)
    /\ lookups' = Append(lookups,
           [op |-> "get_all_logfiles", dir |-> req.log_path,
            key |-> req.extension])
    /\ pc' = "history"
    /\ idx' = 1
    /\ values' = <<>>
    /\ UNCHANGED <<req, playbooks, results, calls, workspaces, nextUuid,
                   logs, ret, err, records, ninv,
                   written, client, other>>

\* HistoryCollect that iterates over a str as it is, character by character
HistoryCollect_str_as_chars ==
    /\ pc = "idle"
    /\ IF ArgTruthy(req.validation_ids)
       THEN LET validation_ids == IF ~IsList(req.validation_ids)
                                  THEN <<"n", "t", "p">>
                                  ELSE req.validation_ids.d
            IN  /\ files' = ExtendByValidation(logs, req.log_path,
                                               validation_ids)
                /\ lookups' = lookups \o
                       [i \in DOMAIN validation_ids |->
                          [op |-> "get_logfile_by_validation",
                           dir |-> req.log_path, key |-> validation_ids[i]]]
       ELSE /\ files' = get_all_logfiles(logs, req.log_path, req.extension)
            /\ lookups' = Append(lookups,
                   [op |-> "get_all_logfiles", dir |-> req.log_path,
                    key |-> req.extension])
    /\ pc' = "history"
    /\ idx' = 1
    /\ values' = <<>>
    /\ UNCHANGED <<req, playbooks, results, calls, workspaces, nextUuid,
                   logs, ret, err, records, ninv,
                   written, client, other>>

\* lines 555-565: the log files to read, by validation or all of them
HistoryCollect ==
    /\ pc = "idle"
    /\ IF ArgTruthy(req.validation_ids)
       THEN LET validation_ids == IF ~IsList(req.validation_ids)
                                  THEN <<req.validation_ids.d>>
                                  ELSE req.validation_ids.d
            IN  /\ files' = ExtendByValidation(logs, req.log_path,
                                               validation_ids)
                /\ lookups' = lookups \o
                       [i \in DOMAIN validation_ids |->
                          [op |-> "get_logfile_by_validation",
                           dir |-> req.log_path, key |-> validation_ids[i]]]
       ELSE /\ files' = get_all_logfiles(logs, req.log_path, req.extension)
            /\ lookups' = Append(lookups,
                   [op |-> "get_all_logfiles", dir |-> req.log_path,
                    key |-> req.extension])
    /\ pc' = "history"
    /\ idx' = 1
    /\ values' = <<>>
    /\ UNCHANGED <<req, playbooks, results, calls, workspaces, nextUuid,
                   logs, ret, err, records, ninv,
                   written, client, other>>

\* HistoryLog that reads the plays of a log without the structural check
HistoryLog_unchecked ==
    /\ pc = "history"
    /\ idx <= Len(files)
    /\ LET log == files[idx]
           plays == get_plays(log)
       IN  values' = values \o
               [k \in DOMAIN plays |->
                  <<plays[k].id, plays[k].validation_id, get_status_of(log),
                    PlayGet(plays[k], "start"),
                    PlayGet(plays[k], "time_elapsed")>>]
    /\ idx' = idx + 1
    /\ UNCHANGED <<pc, req, playbooks, results, calls, workspaces, nextUuid,
                   logs, ret, err, lookups, records, ninv, files,
                   written, client, other>>

\* HistoryLog that takes the status of the last host for the status of the run
HistoryLog_last_host_status ==
    /\ pc = "history"
    /\ idx <= Len(files)
    /\ LET log == files[idx]
           plays == get_plays(log)
           last == IF log.hosts = <<>> THEN "PASSED"
                   ELSE log.hosts[Len(log.hosts)].status
       IN  values' = IF is_valid_format(log)
                     THEN values \o
                            [k \in DOMAIN plays |->
                               <<plays[k].id, plays[k].validation_id, last,
                                 PlayGet(plays[k], "start"),
                                 PlayGet(plays[k], "time_elapsed")>>]
                     ELSE values
    /\ idx' = idx + 1
    /\ UNCHANGED <<pc, req, playbooks, results, calls, workspaces, nextUuid,
                   logs, ret, err, lookups, records, ninv, files,
                   written, client, other>>

\* lines 571-576, one iteration: the rows of the plays of a valid log
HistoryLog ==
    /\ pc = "history"
    /\ idx <= Len(files)
    /\ LET log == files[idx]
           plays == get_plays(log)
       IN  values' = IF is_valid_format(log)
                     THEN values \o
                            [k \in DOMAIN plays |->
                               <<plays[k].id, plays[k].validation_id,
                                 get_status_of(log),
                                 PlayGet(plays[k], "start"),
                                 PlayGet(plays[k], "time_elapsed")>>]
                     ELSE values
    /\ idx' = idx + 1
    /\ UNCHANGED <<pc, req, playbooks, results, calls, workspaces, nextUuid,
                   logs, ret, err, lookups, records, ninv, files,
                   written, client, other>>

\* line 577: return (column_name, values)
HistoryReturn ==
    /\ pc = "history"
    /\ idx > Len(files)
    /\ pc' = "returned"
    /\ ret' = <<column_name_history, values>>
    /\ UNCHANGED <<req, playbooks, idx, results, calls, workspaces, nextUuid,
                   logs, err, lookups, records, ninv, files, values,
                   written, client, other>>

NextHistory == HistoryCollect \/ HistoryLog \/ HistoryReturn

\* a call of show_history on a log directory
InitHistory ==
    /\ pc = "idle"
    /\ req \in HistoryRequests
    /\ logs \in Stores
    /\ playbooks = <<>>
    /\ idx = 1
    /\ results = <<>>
    /\ calls = <<>>
    /\ workspaces = {}
    /\ nextUuid = Len(logs) + 1
    /\ ret = <<>>
    /\ err = NoError
    /\ lookups = <<>>
    /\ records = <<>>
    /\ ninv = 1
    /\ files = <<>>
    /\ values = <<>>
    /\ written = <<>>
    /\ client = NoClient
    /\ other = NoOther

SpecHistory == InitHistory /\ [][NextHistory]_vars

----------------------------------------------------------------------------
(* get_status *)

StatusRequest(validation_id, uuid, status, log_path) ==
    [validation_id |-> validation_id, uuid |-> uuid, status |-> status,
     log_path |-> log_path]

\* The requests of SpecStatus: a validation id, a run id, both or neither,
\* for each status
StatusRequests ==
    { StatusRequest(v, u, st, lp) :
        v \in {NoneId, "", "ntp", "foo"},
        u \in {PyNone, Py(1), Py(2)},
        st \in {"FAILED", "PASSED", "SKIPPED"},
        lp \in {DefaultLogDir, OtherLogDir} }

column_name_status == <<"name", "host", "status", "task_data">>

\* the rows of the tasks of a log that have one of statuses, task after task
\* and host after host
RECURSIVE TaskRows(_, _)
TaskRows(tasks, statuses) ==
    IF tasks = <<>> THEN <<>>
    ELSE LET task == Head(tasks)
         IN  (IF task.status \in statuses
              THEN [h \in DOMAIN task.hosts |->
                      <<task.name, task.hosts[h].host, task.status,
                        task.hosts[h].payload>>]
              ELSE <<>>)
               \o TaskRows(Tail(tasks), statuses)

\* StatusCollect that reads every log file when no identifier is given
StatusCollect_reads_all ==
    /\ pc = "idle"
    /\ IF req.validation_id # NoneId /\ req.validation_id # ""
       THEN /\ files' = get_logfile_by_validation(logs, req.log_path,
                                                  req.validation_id)
            /\ lookups' = Append(lookups,
                   [op |-> "get_logfile_by_validation", dir |-> req.log_path,
                    key |-> req.validation_id])
       ELSE IF ~req.uuid.isNone
       THEN /\ files' = get_logfile_by_uuid(logs, req.log_path, req.uuid.d)
            /\ lookups' = Append(lookups,
                   [op |-> "get_logfile_by_uuid", dir |-> req.log_path,
                    key |-> req.uuid.d])
       ELSE /\ files' = get_all_logfiles(logs, req.log_path, "json")
            /\ lookups' = Append(lookups,
                   [op |-> "get_all_logfiles", dir |-> req.log_path,
                    key |-> "json"])
    /\ pc' = "status"
    /\ idx' = 1
    /\ values' = <<>>
    /\ UNCHANGED <<req, playbooks, results, calls, workspaces, nextUuid,
                   logs, ret, err, records, ninv,
                   written, client, other>>

\* lines 626-634: the log files to read, by validation or by run, or raise
StatusCollect ==
    /\ pc = "idle"
    /\ IF req.validation_id # NoneId /\ req.validation_id # ""
       THEN /\ files' = get_logfile_by_validation(logs, req.log_path,
                                                  req.validation_id)
            /\ lookups' = Append(lookups,
                   [op |-> "get_logfile_by_validation", dir |-> req.log_path,
                    key |-> req.validation_id])
            /\ pc' = "status"
            /\ err' = err
       ELSE IF ~req.uuid.isNone
       THEN /\ files' = get_logfile_by_uuid(logs, req.log_path, req.uuid.d)
            /\ lookups' = Append(lookups,
                   [op |-> "get_logfile_by_uuid", dir |-> req.log_path,
                    key |-> req.uuid.d])
            /\ pc' = "status"
            /\ err' = err
       ELSE /\ pc' = "raised"
            /\ err' = [type |-> "RuntimeError",
                       msg |-> "You need to provide a validation_id or a uuid",
                       unknown |-> {}, dir |-> NoneId]
            /\ UNCHANGED <<files, lookups>>
    /\ idx' = 1
    /\ values' = <<>>
    /\ UNCHANGED <<req, playbooks, results, calls, workspaces, nextUuid,
                   logs, ret, records, ninv,
                   written, client, other>>

\* StatusLog that takes the tasks of every status
StatusLog_unfiltered ==
    /\ pc = "status"
    /\ idx <= Len(files)
    /\ LET log == files[idx]
           Wanted == {"FAILED", "PASSED", "SKIPPED"}
       IN  values' = IF is_valid_format(log)
                     THEN values \o TaskRows(get_tasks_data(log), Wanted)
                     ELSE values
    /\ idx' = idx + 1
    /\ UNCHANGED <<pc, req, playbooks, results, calls, workspaces, nextUuid,
                   logs, ret, err, lookups, records, ninv, files,
                   written, client, other>>

\* lines 636-643, one iteration: the rows of the tasks of a valid log that
\* have the status asked for
StatusLog ==
    /\ pc = "status"
    /\ idx <= Len(files)
    /\ LET log == files[idx]
           Wanted == {req.status}
       IN  values' = IF is_valid_format(log)
                     THEN values \o TaskRows(get_tasks_data(log), Wanted)
                     ELSE values
    /\ idx' = idx + 1
    /\ UNCHANGED <<pc, req, playbooks, results, calls, workspaces, nextUuid,
                   logs, ret, err, lookups, records, ninv, files,
                   written, client, other>>

\* line 644: return (column_name, values)
StatusReturn ==
    /\ pc = "status"
    /\ idx > Len(files)
    /\ pc' = "returned"
    /\ ret' = <<column_name_status, values>>
    /\ UNCHANGED <<req, playbooks, idx, results, calls, workspaces, nextUuid,
                   logs, err, lookups, records, ninv, files, values,
                   written, client, other>>

NextStatus == StatusCollect \/ StatusLog \/ StatusReturn

\* a call of get_status on a log directory
InitStatus ==
    /\ pc = "idle"
    /\ req \in StatusRequests
    /\ logs \in Stores
    /\ playbooks = <<>>
    /\ idx = 1
    /\ results = <<>>
    /\ calls = <<>>
    /\ workspaces = {}
    /\ nextUuid = Len(logs) + 1
    /\ ret = <<>>
    /\ err = NoError
    /\ lookups = <<>>
    /\ records = <<>>
    /\ ninv = 1
    /\ files = <<>>
    /\ values = <<>>
    /\ written = <<>>
    /\ client = NoClient
    /\ other = NoOther

SpecStatus == InitStatus /\ [][NextStatus]_vars

----------------------------------------------------------------------------
(* The run command: ValidationClientRun.take_action *)

\* The requests the run command makes: --validation and --group are lists,
\* empty by default; nothing is skipped, the run is synchronous
ClientRequests ==
    { Request(n, g, v, PyNone, None, FALSE, NoneId) :
        n \in {Py(<<>>), Py(<<"ntp">>), Py(<<"ghost">>),
               Py(<<"ntp", "ghost">>), Py(<<"foo", "ntp">>)},
        g \in {Py(<<>>), Py(<<"prep">>)},
        v \in {NoneId, OtherValidationDir} }

\* --output-log: absent, or the path of a file
OutputLogs == {NoneId, "/tmp/run.json"}

\* ClientExit that reports the error and goes on to write the empty results
ClientExit_goes_on ==
    /\ pc = "raised"
    /\ pc' = "done"
    /\ client' = [client EXCEPT !.exited = TRUE, !.code = 0,
                                !.stderr = Append(@, err)]
    /\ written' = IF client.output_log # NoneId
                  THEN Append(written, [path |-> client.output_log,
                                        content |-> <<>>])
                  ELSE written
    /\ UNCHANGED <<req, playbooks, idx, results, calls, workspaces, nextUuid,
                   logs, ret, err, lookups, records, ninv, files, values,
                   other>>

\* ova_client.py lines 184-185: except RuntimeError as e: sys.exit(e), the
\* message goes to stderr and the exit status is 1
ClientExit ==
    /\ pc = "raised"
    /\ pc' = "exited"
    /\ client' = [client EXCEPT !.exited = TRUE, !.code = 1,
                                !.stderr = Append(@, err)]
    /\ UNCHANGED <<req, playbooks, idx, results, calls, workspaces, nextUuid,
                   logs, ret, err, lookups, records, ninv, files, values,
                   written, other>>

\* ova_client.py lines 186-190: the results, when there are some, are
\* written to the output log or printed as a table
ClientOutput ==
    /\ pc = "returned"
    /\ pc' = "done"
    /\ IF ret # <<>>
       THEN IF client.output_log # NoneId /\ client.output_log # ""
            THEN /\ written' = Append(written, [path |-> client.output_log,
                                                content |-> ret])
                 /\ client' = [client EXCEPT !.exited = TRUE]
            ELSE /\ client' = [client EXCEPT !.exited = TRUE,
                                             !.stdout = Append(@, ret)]
                 /\ written' = written
       ELSE /\ client' = [client EXCEPT !.exited = TRUE]
            /\ written' = written
    /\ UNCHANGED <<req, playbooks, idx, results, calls, workspaces, nextUuid,
                   logs, ret, err, lookups, records, ninv, files, values,
                   other>>

\* the run command passes no skip_list, so no playbook is skipped
NextClient == Start \/ Run \/ Finish \/ ClientExit \/ ClientOutput

\* the run command starts with its parsed arguments
InitClient ==
    /\ pc = "idle"
    /\ req \in ClientRequests
    /\ client \in {[NoClient EXCEPT !.output_log = o] : o \in OutputLogs}
    /\ playbooks = <<>>
    /\ idx = 1
    /\ results = <<>>
    /\ calls = <<>>
    /\ workspaces = {}
    /\ nextUuid = 1
    /\ logs = <<>>
    /\ ret = <<>>
    /\ err = NoError
    /\ lookups = <<>>
    /\ records = <<>>
    /\ ninv = 1
    /\ files = <<>>
    /\ values = <<>>
    /\ written = <<>>
    /\ other = NoOther

SpecClient == InitClient /\ [][NextClient]_vars

----------------------------------------------------------------------------
(* show_validations_parameters *)

\* the parameters of the validations of the catalog and their defaults
Parameters(id) ==
    IF id = "ntp" THEN [p \in {"servers"} |-> 1]
    ELSE IF id = "bar" THEN [p \in {"servers", "retries"} |-> 2]
    ELSE <<>>

\* v_utils.get_validations_parameters: for each playbook, in order, the id of
\* the validation and its parameters
get_validations_parameters(validations) ==
    [i \in DOMAIN validations |->
       [id |-> PlayName(validations[i]),
        parameters |-> Parameters(PlayName(validations[i]))]]

\* dict.update over the parameters of params, in order
RECURSIVE params_only(_)
params_only(params) ==
    IF params = <<>> THEN <<>>
    ELSE LET rest == params_only(SubSeq(params, 1, Len(params) - 1))
             last == params[Len(params)].parameters
         IN  [k \in DOMAIN rest \cup DOMAIN last |->
                IF k \in DOMAIN last THEN last[k] ELSE rest[k]]

\* json.dumps(data, indent=4, sort_keys=True) or yaml.safe_dump(data, ...)
Dump(output_format, data) ==
    IF output_format = "json"
    THEN [format |-> "json", indent |-> 4, data |-> data]
    ELSE [format |-> "yaml", indent |-> 2, data |-> data]

ParamsRequest(validation, group, output_format, download_file) ==
    [validation |-> validation, group |-> group,
     output_format |-> output_format, download_file |-> download_file]

\* The requests of SpecParams: supported and unsupported formats, with and
\* without a file to write
ParamsRequests ==
    { ParamsRequest(v, g, f, d) :
        v \in {PyNone, Py(<<"ntp">>), Py(<<"ntp", "bar">>)},
        g \in {PyNone, Py(<<"prep">>)},
        f \in {"json", "yaml", "bar", "JSON", ""},
        d \in {NoneId, "", "/tmp/params"} }

supported_format == {"json", "yaml"}

\* ParamsCheck that opens the file to write before it looks at the format
ParamsCheck_opens_first ==
    /\ pc = "idle"
    /\ written' = IF req.download_file # NoneId /\ req.download_file # ""
                  THEN Append(written, [path |-> req.download_file,
                                        content |-> <<>>])
                  ELSE written
    /\ IF req.output_format \notin supported_format
       THEN /\ pc' = "raised"
            /\ err' = [type |-> "RuntimeError",
                       msg |-> "{} output format not supported",
                       arg |-> req.output_format,
                       unknown |-> {}, dir |-> NoneId]
       ELSE /\ pc' = "params"
            /\ err' = err
    /\ UNCHANGED <<req, playbooks, idx, results, calls, workspaces, nextUuid,
                   logs, ret, lookups, records, ninv, files, values,
                   client, other>>

\* lines 461-470: the format is checked before anything else is done
ParamsCheck ==
    /\ pc = "idle"
    /\ IF req.output_format \notin supported_format
       THEN /\ pc' = "raised"
            /\ err' = [type |-> "RuntimeError",
                       msg |-> "{} output format not supported",
                       arg |-> req.output_format,
                       unknown |-> {}, dir |-> NoneId]
       ELSE /\ pc' = "params"
            /\ err' = err
    /\ UNCHANGED <<req, playbooks, idx, results, calls, workspaces, nextUuid,
                   logs, ret, lookups, records, ninv, files, values,
                   written, client, other>>

\* lines 472-475: the playbooks of the catalog and their parameters
ParamsLookup ==
    /\ pc = "params"
    /\ LET validation == IF ObjTruthy(req.validation)
                         THEN req.validation.d ELSE <<>>
           group == IF ObjTruthy(req.group) THEN req.group ELSE Py(<<>>)
           validations == get_validations_playbook(DefaultValidationDir,
                                                   validation, group)
       IN  /\ playbooks' = validations
           /\ values' = get_validations_parameters(validations)
           /\ lookups' = Append(lookups,
                  [op |-> "get_validations_playbook",
                   dir |-> DefaultValidationDir, key |-> validation])
    /\ pc' = "found"
    /\ UNCHANGED <<req, idx, results, calls, workspaces, nextUuid,
                   logs, ret, err, records, ninv, files,
                   written, client, other>>

\* lines 476-489: with download_file, the parameters alone are written to it
ParamsDownload ==
    /\ pc = "found"
    /\ req.download_file # NoneId /\ req.download_file # ""
    /\ written' = Append(written,
           [path |-> req.download_file,
            content |-> Dump(req.output_format, params_only(values))])
    /\ pc' = "dumped"
    /\ UNCHANGED <<req, playbooks, idx, results, calls, workspaces, nextUuid,
                   logs, ret, err, lookups, records, ninv, files, values,
                   client, other>>

\* lines 490-499: the dump of the parameters is returned
ParamsReturn ==
    /\ \/ pc = "dumped"
       \/ pc = "found" /\ (req.download_file = NoneId \/ req.download_file = "")
    /\ ret' = Dump(req.output_format, values)
    /\ pc' = "returned"
    /\ UNCHANGED <<req, playbooks, idx, results, calls, workspaces, nextUuid,
                   logs, err, lookups, records, ninv, files, values,
                   written, client, other>>

NextParams == ParamsCheck \/ ParamsLookup \/ ParamsDownload \/ ParamsReturn

InitParams == InitWith(ParamsRequests)
SpecParams == InitParams /\ [][NextParams]_vars

----------------------------------------------------------------------------
(* ova/validation.py: a validation loaded from its playbook *)

\* A dict is a sequence of <<key, value>> pairs, in insertion order
Keys(dict) == {dict[i][1] : i \in DOMAIN dict}
\* dict.get(key)
DictGet(dict, key) ==
    IF key \in Keys(dict)
    THEN dict[CHOOSE i \in DOMAIN dict : dict[i][1] = key][2]
    ELSE NoneId
\* dict[key] = value
DictSet(dict, key, val) ==
    IF key \in Keys(dict)
    THEN [i \in DOMAIN dict |->
            IF dict[i][1] = key THEN <<key, val>> ELSE dict[i]]
    ELSE Append(dict, <<key, val>>)
\* dict.update(extra)
RECURSIVE DictUpdate(_, _)
DictUpdate(dict, extra) ==
    IF extra = <<>> THEN dict
    ELSE DictUpdate(DictSet(dict, Head(extra)[1], Head(extra)[2]),
                    Tail(extra))

\* Validation._col_keys, and the column whose lower case is key
_col_keys == <<"ID", "Name", "Description", "Groups">>
Lower(k) ==
    IF k = "ID" THEN "id"
    ELSE IF k = "Name" THEN "name"
    ELSE IF k = "Description" THEN "description"
    ELSE IF k = "Groups" THEN "groups"
    ELSE k

\* The metadata blocks of the model: a name, and any of the keys groups, id,
\* ID and owner
MetadataBlocks ==
    LET Entry(k) == <<k, IF k = "id" THEN "other"
                         ELSE IF k = "ID" THEN "OTHER" ELSE "text">>
        Block(ks) == LET Keep(k) == k \in ks
                         kept == SelectSeq(<<"name", "groups", "id", "ID",
                                             "owner">>, Keep)
                     IN  [i \in DOMAIN kept |-> Entry(kept[i])]
    IN  {Block(ks \cup {"name"}) : ks \in SUBSET {"groups", "id", "ID", "owner"}}

\* The playbooks of the model: without vars, with vars but no metadata, and
\* with each metadata block
ValidationFiles ==
    { [path |-> Path("/foo/bar", stem, ".yaml"), has_vars |-> hv,
       has_metadata |-> hm, metadata |-> m] :
        stem \in {"val1", "ntp"}, hv \in BOOLEAN, hm \in BOOLEAN,
        m \in MetadataBlocks }

\* has_metadata_dict
has_metadata_dict(file) == file.has_vars /\ file.has_metadata

\* get_metadata, for a validation that has metadata
get_metadata(id, file) == DictUpdate(<< <<"id", id>> >>, file.metadata)

\* get_formated_data: the metadata with the column names for the keys id,
\* name, description and groups
RECURSIVE FormatKeys(_, _, _)
FormatKeys(keys, metadata, data) ==
    IF keys = <<>> THEN data
    ELSE LET key == Head(keys)
             IsCol(k) == Lower(k) = key
             output_key == IF SelectSeq(_col_keys, IsCol) # <<>>
                           THEN SelectSeq(_col_keys, IsCol)[1]
                           ELSE key
         IN  FormatKeys(Tail(keys), metadata,
                        DictSet(data, output_key, DictGet(metadata, key)))
get_formated_data(metadata) ==
    FormatKeys([i \in DOMAIN metadata |-> metadata[i][1]], metadata, <<>>)

\* validation.py lines 74-76: Validation(validation_path)
Load ==
    /\ pc = "idle"
    /\ values' = [id |-> PlayName(req.path), dict |-> req]
    /\ pc' = "loaded"
    /\ UNCHANGED <<req, playbooks, idx, results, calls, workspaces, nextUuid,
                   logs, ret, err, lookups, records, ninv, files,
                   written, client, other>>

\* validation.py lines 229-242: get_id
GetId ==
    /\ pc = "loaded"
    /\ ret' = [get_id |-> values.id]
    /\ pc' = "id"
    /\ UNCHANGED <<req, playbooks, idx, results, calls, workspaces, nextUuid,
                   logs, err, lookups, records, ninv, files, values,
                   written, client, other>>

\* validation.py lines 130-155: get_metadata, or NameError
GetMetadata ==
    /\ pc = "id"
    /\ IF has_metadata_dict(values.dict)
       THEN /\ ret' = [get_id |-> ret.get_id,
                       get_metadata |-> get_metadata(values.id, values.dict)]
            /\ pc' = "metadata"
            /\ err' = err
       ELSE /\ pc' = "raised"
            /\ err' = [type |-> "NameError",
                       msg |-> "No metadata found in validation {}",
                       arg |-> values.id, unknown |-> {}, dir |-> NoneId]
            /\ ret' = ret
    /\ UNCHANGED <<req, playbooks, idx, results, calls, workspaces, nextUuid,
                   logs, lookups, records, ninv, files, values,
                   written, client, other>>

\* validation.py lines 255-287: get_formated_data
GetFormatedData ==
    /\ pc = "metadata"
    /\ ret' = [get_id |-> ret.get_id, get_metadata |-> ret.get_metadata,
               get_formated_data |->
                   get_formated_data(get_metadata(values.id, values.dict))]
    /\ pc' = "returned"
    /\ UNCHANGED <<req, playbooks, idx, results, calls, workspaces, nextUuid,
                   logs, err, lookups, records, ninv, files, values,
                   written, client, other>>

NextValidation == Load \/ GetId \/ GetMetadata \/ GetFormatedData

InitValidation == InitWith(ValidationFiles)
SpecValidation == InitValidation /\ [][NextValidation]_vars

----------------------------------------------------------------------------
(* Two calls of run_validations running at the same time *)

\* The requests of SpecConc: one or two validations, one of them skipped or
\* not, all with the same log directory
ConcRequests ==
    { Request(n, PyNone, NoneId, s, None, FALSE, NoneId) :
        n \in {Py(<<"ntp">>), Py(<<"foo", "ntp">>)},
        s \in {PyNone, Py([u \in {"foo"} |-> Rule(ALL)])} }

\* what a call keeps for itself: where it is, its arguments and its locals
Locals(_pc, _req, _playbooks, _idx, _results, _calls, _ret, _err, _lookups) ==
    [pc |-> _pc, req |-> _req, playbooks |-> _playbooks, idx |-> _idx,
     results |-> _results, calls |-> _calls, ret |-> _ret, err |-> _err,
     lookups |-> _lookups]

\* the engine has been given the playbook and has not returned yet
Running == [rc |-> -1, status |-> "running", log |-> "none"]

\* Allocate that names the workspace after the rank of the run in its call
Allocate_local_name ==
    /\ pc = "loop"
    /\ idx <= Len(playbooks)
    /\ LET playbook == playbooks[idx]
           sp == _skip_playbook(req.skip_list, PlayName(playbook),
                                req.limit_hosts)
           validation_uuid == Len(calls) + 1
       IN  /\ sp[1] # NoneId /\ sp[1] # ""
           /\ workspaces' = workspaces \cup
                  {[uuid |-> validation_uuid, dir_path |-> req.log_path,
                    prefix |-> Path("", playbook.stem, playbook.ext)]}
           /\ calls' = Append(calls,
                  [uuid |-> validation_uuid, workdir |-> validation_uuid,
                   playbook |-> playbook,
                   playbook_dir |-> EffectiveDir(req.validations_dir),
                   limit_hosts |-> sp[2], log_path |-> req.log_path,
                   run_async |-> req.run_async, out |-> Running])
    /\ nextUuid' = nextUuid + 1
    /\ pc' = "allocated"
    /\ UNCHANGED <<req, playbooks, idx, results, logs, ret, err, lookups,
                   records, ninv, files, values, written, client, other>>

\* lines 338-339: create_artifacts_dir gives the run its id and its
\* workspace; lines 340-342: the engine is started on the playbook
Allocate ==
    /\ pc = "loop"
    /\ idx <= Len(playbooks)
    /\ LET playbook == playbooks[idx]
           sp == _skip_playbook(req.skip_list, PlayName(playbook),
                                req.limit_hosts)
           validation_uuid == nextUuid
       IN  /\ sp[1] # NoneId /\ sp[1] # ""
           /\ workspaces' = workspaces \cup
                  {[uuid |-> validation_uuid, dir_path |-> req.log_path,
                    prefix |-> Path("", playbook.stem, playbook.ext)]}
           /\ calls' = Append(calls,
                  [uuid |-> validation_uuid, workdir |-> validation_uuid,
                   playbook |-> playbook,
                   playbook_dir |-> EffectiveDir(req.validations_dir),
                   limit_hosts |-> sp[2], log_path |-> req.log_path,
                   run_async |-> req.run_async, out |-> Running])
    /\ nextUuid' = nextUuid + 1
    /\ pc' = "allocated"
    /\ UNCHANGED <<req, playbooks, idx, results, logs, ret, err, lookups,
                   records, ninv, files, values, written, client, other>>

\* lines 341-364: the engine returns, its log file is written and the run
\* record is appended
Execute ==
    /\ pc = "allocated"
    /\ LET call == calls[Len(calls)]
       IN  \E out \in EngineOutcomes :
              /\ calls' = [calls EXCEPT ![Len(calls)].out = out]
              /\ logs' = IF req.run_async THEN logs
                         ELSE Append(logs,
                                EngineLog(call.uuid,
                                          EngineLogDir(call.log_path),
                                          PlayName(call.playbook), out.log))
              /\ LET record == RunRecord(EngineName(call.playbook), out.rc,
                                         out.status, call.uuid)
                 IN  /\ results' = Append(results, record)
                     /\ records' = Append(records, record)
    /\ idx' = idx + 1
    /\ pc' = "loop"
    /\ UNCHANGED <<req, playbooks, workspaces, nextUuid, ret, err, lookups,
                   ninv, files, values, written, client, other>>

\* the scheduler lets the other call run
Switch ==
    /\ other.pc # "none"
    /\ other' = Locals(pc, req, playbooks, idx, results, calls, ret, err,
                       lookups)
    /\ pc' = other.pc
    /\ req' = other.req
    /\ playbooks' = other.playbooks
    /\ idx' = other.idx
    /\ results' = other.results
    /\ calls' = other.calls
    /\ ret' = other.ret
    /\ err' = other.err
    /\ lookups' = other.lookups
    /\ UNCHANGED <<workspaces, nextUuid, logs, records, ninv, files, values,
                   written, client>>

NextConc == Start \/ Allocate \/ Execute \/ Skip \/ Finish \/ Switch

\* two calls, neither of which has started
InitConc ==
    /\ pc = "idle"
    /\ req \in ConcRequests
    /\ other \in {Locals("idle", r, <<>>, 1, <<>>, <<>>, <<>>, NoError, <<>>) :
                    r \in ConcRequests}
    /\ playbooks = <<>>
    /\ idx = 1
    /\ results = <<>>
    /\ calls = <<>>
    /\ workspaces = {}
    /\ nextUuid = 1
    /\ logs = <<>>
    /\ ret = <<>>
    /\ err = NoError
    /\ lookups = <<>>
    /\ records = <<>>
    /\ ninv = 1
    /\ files = <<>>
    /\ values = <<>>
    /\ written = <<>>
    /\ client = NoClient

SpecConc == InitConc /\ [][NextConc]_vars

----------------------------------------------------------------------------
(* show_validations, and calls of every kind one after the other *)

ShowRequest(validation, log_path) ==
    [validation |-> validation, log_path |-> log_path]

\* v_utils.get_validations_data(validation, path): the data of the
\* validation, nothing when the catalog does not have it
get_validations_data(validation, path) ==
    LET Named(u) == u.id = validation
    IN  SelectSeq(Disk(path), Named)

\* ValidationLogs.get_validations_stats: the number of executions the logs
\* show, and how many of them passed and failed
get_validations_stats(logfiles) ==
    LET Passed(l) == get_status_of(l) = "PASSED"
        Failed(l) == get_status_of(l) # "PASSED"
    IN  [total |-> Len(logfiles), passed |-> Len(SelectSeq(logfiles, Passed)),
         failed |-> Len(SelectSeq(logfiles, Failed))]

\* lines 116-130: the data of a validation with the statistics of its logs,
\* or an error when the catalog does not have it
ShowValidations ==
    /\ pc = "idle"
    /\ LET data == get_validations_data(req.validation, DefaultValidationDir)
           logfiles == get_logfile_by_validation(logs, req.log_path,
                                                 req.validation)
       IN  IF data = <<>>
           THEN /\ pc' = "raised"
                /\ err' = [type |-> "RuntimeError",
                           msg |-> "Validation {} not found in the path: {}",
                           arg |-> req.validation, unknown |-> {},
                           dir |-> DefaultValidationDir]
                /\ UNCHANGED <<ret, lookups>>
           ELSE /\ pc' = "returned"
                /\ ret' = [ID |-> data[1].id, Groups |-> data[1].groups,
                           executions |-> get_validations_stats(logfiles)]
                /\ lookups' = Append(lookups,
                       [op |-> "get_logfile_content_by_validation",
                        dir |-> req.log_path, key |-> req.validation])
                /\ err' = err
    /\ UNCHANGED <<req, playbooks, idx, results, calls, workspaces, nextUuid,
                   logs, records, ninv, files, values, written, client,
                   other>>

\* which method a request is for
IsRun(r) == "validation_name" \in DOMAIN r
IsHistory(r) == "validation_ids" \in DOMAIN r
IsStatus(r) == "status" \in DOMAIN r
IsShow(r) == "validation" \in DOMAIN r /\ "output_format" \notin DOMAIN r

\* The requests of SpecOps: runs, skipped or not, synchronous or not, with
\* the default log directory or another one, and queries of every kind
OpsRequests ==
    { Request(Py(<<"ntp">>), PyNone, NoneId, s, None, a, lp) :
        s \in {PyNone, Py([u \in {"ntp"} |-> Rule(ALL)])},
        a \in BOOLEAN, lp \in {NoneId, OtherLogDir} }
    \cup { HistoryRequest(v, "json", DefaultLogDir) :
             v \in {PyNone, Py(<<"ntp">>)} }
    \cup { StatusRequest("ntp", PyNone, "FAILED", DefaultLogDir),
           StatusRequest(NoneId, Py(1), "PASSED", DefaultLogDir),
           StatusRequest(NoneId, PyNone, "FAILED", DefaultLogDir) }
    \cup { ShowRequest(v, DefaultLogDir) : v \in {"ntp", "ghost"} }

\* The log directories SpecOps starts with: empty, one valid log, a log that
\* does not parse before a valid one
OpsStores ==
    LET Valid(i) == CHOOSE l \in LogShapes(i) :
                       /\ l.validation_id = "ntp" /\ l.ext = "json"
                       /\ l.dir = DefaultLogDir /\ Len(l.plays) = 2
        Broken(i) == CHOOSE l \in LogShapes(i) : ~l.wellformed
    IN  { <<>>, <<Valid(1)>>, <<Broken(1), Valid(2)>> }

OpsRun == IsRun(req) /\ Start
OpsHistory == IsHistory(req) /\ HistoryCollect
OpsStatus == IsStatus(req) /\ StatusCollect
OpsShow == IsShow(req) /\ ShowValidations

\* a further call, of any method, once the previous one has ended
Another ==
    /\ pc \in {"returned", "raised"}
    /\ ninv < MaxInvocations
    /\ ninv' = ninv + 1
    /\ pc' = "idle"
    /\ req' \in OpsRequests
    /\ playbooks' = <<>>
    /\ idx' = 1
    /\ results' = <<>>
    /\ calls' = <<>>
    /\ ret' = <<>>
    /\ err' = NoError
    /\ lookups' = <<>>
    /\ files' = <<>>
    /\ values' = <<>>
    /\ UNCHANGED <<workspaces, nextUuid, logs, records, written, client,
                   other>>

NextOps ==
    \/ OpsRun \/ Run \/ Skip \/ Finish
    \/ OpsHistory \/ HistoryLog \/ HistoryReturn
    \/ OpsStatus \/ StatusLog \/ StatusReturn
    \/ OpsShow
    \/ Another

\* a first call on a log directory
InitOps ==
    /\ pc = "idle"
    /\ req \in OpsRequests
    /\ logs \in OpsStores
    /\ playbooks = <<>>
    /\ idx = 1
    /\ results = <<>>
    /\ calls = <<>>
    /\ workspaces = {}
    /\ nextUuid = Len(logs) + 1
    /\ ret = <<>>
    /\ err = NoError
    /\ lookups = <<>>
    /\ records = <<>>
    /\ ninv = 1
    /\ files = <<>>
    /\ values = <<>>
    /\ written = <<>>
    /\ client = NoClient
    /\ other = NoOther

SpecOps == InitOps /\ [][NextOps]_vars

----------------------------------------------------------------------------
(* Vocabulary of the properties *)

\* the validation named u has a rule in the request's skip list
HasRule(u) == ~req.skip_list.isNone /\ u \in DOMAIN req.skip_list.d
\* the hosts value of u's rule (None when the rule has no hosts key)
RuleHosts(u) == Get(req.skip_list.d[u], "hosts")
\* u's rule names one host
HasHostRule(u) == HasRule(u) /\ RuleHosts(u) # ALL /\ RuleHosts(u) # None

\* the engine was invoked for the validation named u
Executed(u) == \E i \in DOMAIN calls : PlayName(calls[i].playbook) = u
\* a workspace was allocated for the validation named u
Allocated(u) == \E w \in workspaces : w.prefix.stem = u

SelectedIds == {PlayName(playbooks[i]) : i \in DOMAIN playbooks}
Given(o) == ~o.isNone /\ o.d # <<>>
SearchedDir == IF req.validations_dir = NoneId THEN DefaultValidationDir
               ELSE req.validations_dir
OnDisk == {Disk(SearchedDir)[i] : i \in DOMAIN Disk(SearchedDir)}
IdsOnDisk == {u.id : u \in OnDisk}
InRequestedGroups(u) == \E g \in Range(req.group.d) : g \in u.groups

----------------------------------------------------------------------------
(* Skip resolution: C1 - C5, checked under SpecSkip *)

\* C1: a validation whose skip rule has hosts == 'ALL' gets no workspace and no
\* engine invocation, whatever the user's host limit; when every selected
\* validation is skipped this way the run returns an empty list.
C1_SkipAllNeverRuns ==
    /\ \A u \in UnitIds :
         (HasRule(u) /\ RuleHosts(u) = ALL) => ~Executed(u) /\ ~Allocated(u)
    /\ (pc = "returned" /\ \A u \in SelectedIds : HasRule(u) /\ RuleHosts(u) = ALL)
         => ret = <<>>

C1_Witness ==
    /\ pc = "returned"
    /\ SelectedIds # {}
    /\ \A u \in SelectedIds : HasRule(u) /\ RuleHosts(u) = ALL
    /\ StrTruthy(req.limit_hosts)
    /\ ret = <<>> /\ calls = <<>> /\ workspaces = {}

\* C2 (as claimed): with a rule for host h and a non-empty user limit L, the
\* limit given to the engine is '!h' followed by exactly the tokens of L that
\* are not equal to h, in order.
C2_OnlyEqualTokensDropped ==
    \A i \in DOMAIN calls :
        LET u == PlayName(calls[i].playbook)
            NotH(t) == t # RuleHosts(u)
        IN  (HasHostRule(u) /\ StrTruthy(req.limit_hosts)) =>
              calls[i].limit_hosts =
                Join(<<Bang(RuleHosts(u))>>
                       \o SelectSeq(Split(req.limit_hosts), NotH))

C4_NoRuleKeepsLimit ==
    \A i \in DOMAIN playbooks :
        LET u == PlayName(playbooks[i])
        IN  ~HasRule(u) =>
              /\ _skip_playbook(req.skip_list, u, req.limit_hosts)
                   = <<u, req.limit_hosts>>
              /\ (i < idx => \E k \in DOMAIN calls :
                                calls[k].playbook = playbooks[i])
              /\ \A k \in DOMAIN calls :
                    calls[k].playbook = playbooks[i] =>
                      calls[k].limit_hosts = req.limit_hosts

C4_Witness ==
    /\ pc = "returned"
    /\ StrTruthy(req.limit_hosts)
    /\ ~req.skip_list.isNone /\ DOMAIN req.skip_list.d # {}
    /\ \E k \in DOMAIN calls :
         /\ ~HasRule(PlayName(calls[k].playbook))
         /\ calls[k].limit_hosts = req.limit_hosts

\* C5: a rule whose hosts value is absent or None makes the resolver signal
\* "skip" for every user limit, exactly as hosts == 'ALL' does: the validation
\* gets no workspace and no engine invocation.
C5_MissingHostsSkipsAll ==
    \A u \in UnitIds :
        (HasRule(u) /\ RuleHosts(u) = None) =>
          /\ _skip_playbook(req.skip_list, u, req.limit_hosts) = <<NoneId, None>>
          /\ _skip_playbook(req.skip_list, u, req.limit_hosts)
               = _skip_playbook(Py([v \in {u} |-> Rule(ALL)]), u,
                                req.limit_hosts)
          /\ ~Executed(u) /\ ~Allocated(u)

C5_Witness ==
    /\ pc = "returned"
    /\ StrTruthy(req.limit_hosts)
    /\ \E u \in SelectedIds :
         /\ HasRule(u) /\ "hosts" \notin DOMAIN req.skip_list.d[u]
         /\ ~Executed(u)
    /\ \E u \in SelectedIds : Executed(u)

----------------------------------------------------------------------------
(* Selection: C6 - C10, checked under Spec *)

\* C6 (as claimed): with names and no group, run_validations fails with the
\* not-found error if and only if some requested name has no validation on
\* disk; a request whose names all resolve, repeated or not, does not fail.
C6_FailsIffNameUnresolved ==
    (pc # "idle" /\ Given(req.validation_name) /\ ~Given(req.group)) =>
        (pc = "raised" <=>
            \E n \in Range(req.validation_name.d) : n \notin IdsOnDisk)

\* C7: the not-found error lists exactly the requested names that have no
\* validation on disk, and the directory that was searched.
C7_ErrorListsExactlyTheUnresolved ==
    (pc = "raised" /\ err.msg = "Validation {} not found in {}.") =>
        /\ err.unknown =
             {n \in Range(req.validation_name.d) : n \notin IdsOnDisk}
        /\ err.dir = SearchedDir

C7_Witness ==
    /\ pc = "raised"
    /\ err.unknown # {}
    /\ \E n \in Range(req.validation_name.d) : n \in IdsOnDisk
    /\ req.validations_dir = OtherValidationDir

\* C8: with neither a validation name nor a group, run_validations raises
\* "No validations found", with no workspace allocated and no engine invoked.
C8_NoCriteriaRaises ==
    (pc # "idle" /\ ~Given(req.validation_name) /\ ~Given(req.group)) =>
        /\ pc = "raised"
        /\ err.type = "RuntimeError" /\ err.msg = "No validations found"
        /\ calls = <<>> /\ workspaces = {} /\ results = <<>>

C8_Witness ==
    /\ pc = "raised"
    /\ req.validation_name = Py(<<>>) /\ req.group.isNone
    /\ err.msg = "No validations found"
    /\ ObjTruthy(req.skip_list)

\* C9 (as claimed): with both names and groups, the selected validations are
\* the union: those requested by name or belonging to a requested group.
C9_NamesAndGroupsUnion ==
    (pc # "idle" /\ Given(req.validation_name) /\ Given(req.group)) =>
        SelectedIds =
          {u.id : u \in {v \in OnDisk :
                           \/ v.id \in Range(req.validation_name.d)
                           \/ InRequestedGroups(v)}}

\* C9 (amended): with both names and groups, the groups decide alone: the
\* selected validations are exactly those of the requested groups, once each,
\* the names are ignored, and no not-found error is raised for them.
C9_GroupsTakePrecedence ==
    (pc # "idle" /\ Given(req.validation_name) /\ Given(req.group)) =>
        /\ pc # "raised"
        /\ SelectedIds = {u.id : u \in {v \in OnDisk : InRequestedGroups(v)}}
        /\ Len(playbooks) = Cardinality(SelectedIds)

C9_Witness ==
    /\ pc = "returned"
    /\ Given(req.group)
    /\ \E n \in Range(req.validation_name.d) :
         n \in IdsOnDisk /\ n \notin SelectedIds /\ ~Executed(n)
    /\ \E u \in SelectedIds :
         Executed(u) /\ u \notin Range(req.validation_name.d)

\* C10 (as claimed): a non-empty group filter that matches no validation on
\* disk makes run_validations fail with a resolution error.
C10_UnmatchedGroupRaises ==
    (pc # "idle" /\ Given(req.group)
       /\ \A u \in OnDisk : ~InRequestedGroups(u)) =>
        pc = "raised"

----------------------------------------------------------------------------
(* The run loop *)

\* the skip list rules the validation u out on every host
SkipsAll(u) == HasRule(u) /\ (RuleHosts(u) = ALL \/ RuleHosts(u) = None)
\* the run ids of the engine calls of this invocation, in execution order
CallUuids == [j \in DOMAIN calls |-> calls[j].uuid]

\* C11: when run_validations fails with a resolution error (a requested name
\* is not found, or no criteria are given), no workspace has been allocated,
\* the engine has not been invoked and nothing has been recorded or logged,
\* not even for the requested names that did resolve.
C11_NothingRunsOnResolutionError ==
    pc = "raised" =>
        /\ calls = <<>>
        /\ workspaces = {}
        /\ results = <<>>
        /\ records = <<>>
        /\ logs = <<>>
        /\ nextUuid = 1

C11_Witness ==
    /\ pc = "raised"
    /\ req.validations_dir = NoneId
    /\ ~Given(req.group)
    /\ \E n \in Range(req.validation_name.d) : n \in IdsOnDisk
    /\ \E n \in Range(req.validation_name.d) : n \notin IdsOnDisk
    /\ calls = <<>>

\* C12: a non-zero return code or a 'failed' status of the engine is never
\* raised: it is recorded in the unit's Run Record as the engine gave it, and
\* every later unit that is not skipped is still dispatched.
C12_EngineFailureIsRecordedNotRaised ==
    /\ Len(results) = Len(calls)
    /\ \A j \in DOMAIN calls :
         /\ results[j].rc_code = calls[j].out.rc
         /\ results[j].status = calls[j].out.status
    /\ calls # <<>> => pc # "raised"
    /\ pc = "returned" =>
         \A k \in DOMAIN playbooks :
            ~SkipsAll(PlayName(playbooks[k])) =>
               \E j \in DOMAIN calls : calls[j].playbook = playbooks[k]

C12_Witness ==
    /\ pc = "returned"
    /\ Len(calls) >= 2
    /\ calls[1].out.rc # 0
    /\ results[1].status = "failed"
    /\ results[2].status = "successful"

\* C13: the engine is invoked for the playbooks of the selected list that the
\* skip list does not rule out on every host, once each and in the order of
\* the list; a skipped playbook does not stop the ones after it; the Run
\* Records are in the same order.
C13_EngineCallsFollowSelection ==
    LET done == SubSeq(playbooks, 1, idx - 1)
        NotSkipped(p) == ~SkipsAll(PlayName(p))
    IN  /\ [j \in DOMAIN calls |-> calls[j].playbook]
             = SelectSeq(done, NotSkipped)
        /\ [j \in DOMAIN results |-> results[j].playbook]
             = [j \in DOMAIN calls |-> EngineName(calls[j].playbook)]
        /\ pc = "returned" => idx = Len(playbooks) + 1

C13_Witness ==
    /\ pc = "returned"
    /\ Len(playbooks) >= 2
    /\ SkipsAll(PlayName(playbooks[1]))
    /\ Len(calls) = Len(playbooks) - 1
    /\ calls[1].playbook = playbooks[2]

\* C14: every executed unit gets a run id and a workspace of its own when it
\* is dispatched: one workspace per engine call, none for a skipped unit, the
\* Run Record carries the run id of its call, and over any sequence of calls
\* of run_validations no two Run Records carry the same run id.
C14_FreshRunIdPerExecutedUnit ==
    /\ \A i, j \in DOMAIN records :
         i # j => records[i].UUID # records[j].UUID
    /\ Cardinality(workspaces) = Len(records)
    /\ Len(results) = Len(calls)
    /\ \A j \in DOMAIN calls :
         /\ ~SkipsAll(PlayName(calls[j].playbook))
         /\ results[j].UUID = calls[j].uuid
         /\ \E w \in workspaces :
              /\ w.uuid = calls[j].uuid
              /\ w.prefix = EngineName(calls[j].playbook)

C14_Witness ==
    /\ ninv = 2
    /\ pc = "returned"
    /\ Len(playbooks) = 2
    /\ SkipsAll(PlayName(playbooks[1]))
    /\ Len(results) = 1
    /\ Len(records) = 3

\* C15: with run_async false, run_validations asks the log reader for the
\* results of exactly the run ids of this call, in execution order, and
\* returns what it gets; for the single validation ntp, not skipped, that the
\* engine ran with (ntp.yaml, 0, 'successful') and whose log says PASSED, the
\* result is one row with Validations 'ntp', Status 'PASSED' and the run id.
C15_SyncReturnsResultsOfThisRun ==
    (pc = "returned" /\ ~req.run_async) =>
        /\ Len(lookups) = 1
        /\ lookups[1].op = "get_results"
        /\ lookups[1].key = CallUuids
        /\ ret = get_results(CallUuids, logs)
        /\ ( /\ Len(calls) = 1
             /\ PlayName(calls[1].playbook) = "ntp"
             /\ results[1].playbook = Path("", "ntp", ".yaml")
             /\ results[1].rc_code = 0
             /\ results[1].status = "successful"
             /\ \E l \in Range(logs) :
                  /\ l.uuid = calls[1].uuid
                  /\ l.dir = DefaultLogDir
                  /\ get_status_of(l) = "PASSED" )
           => ret = << [UUID |-> calls[1].uuid, Validations |-> "ntp",
                        Status |-> "PASSED"] >>

C15_Witness ==
    /\ pc = "returned"
    /\ ~req.run_async
    /\ req.validation_name = Py(<<"ntp">>)
    /\ ~HasRule("ntp")
    /\ Len(calls) = 1
    /\ results[1].playbook = Path("", "ntp", ".yaml")
    /\ results[1].rc_code = 0
    /\ results[1].status = "successful"
    /\ Len(ret) = 1
    /\ ret[1].Validations = "ntp"
    /\ ret[1].Status = "PASSED"
    /\ ret[1].UUID = calls[1].uuid

\* C16: with run_async true, run_validations returns the list of Run Records
\* as they are (playbook, return code, status, unit id, run id), one per
\* engine call, and asks the log reader nothing.
C16_AsyncReturnsRunRecords ==
    req.run_async =>
        /\ lookups = <<>>
        /\ pc = "returned" =>
             /\ ret = results
             /\ Len(ret) = Len(calls)
             /\ \A j \in DOMAIN calls :
                  ret[j] = [playbook |-> EngineName(calls[j].playbook),
                            rc_code |-> calls[j].out.rc,
                            status |-> calls[j].out.status,
                            validations |->
                                Path("", PlayName(calls[j].playbook), ""),
                            UUID |-> calls[j].uuid]

C16_Witness ==
    /\ pc = "returned"
    /\ req.run_async
    /\ Len(ret) = 2
    /\ ret[1].rc_code # 0
    /\ logs = <<>>

----------------------------------------------------------------------------
(* History *)

\* the log fails the structural check: it does not parse, or one of its plays
\* lacks its id, its duration.start or its duration.time_elapsed
FailsStructuralCheck(log) ==
    \/ ~log.wellformed
    \/ \E i \in DOMAIN log.plays : "id" \in log.plays[i].absent
    \/ \E i \in DOMAIN log.plays : "start" \in log.plays[i].absent
    \/ \E i \in DOMAIN log.plays : "time_elapsed" \in log.plays[i].absent
\* the rows of the history that carry the run id of the log
RowsOf(log) == SelectSeq(values, LAMBDA row : row[1] = log.uuid)
\* the status of a run by the rule: PASSED when every host is PASSED, else
\* the status of the first host that is not
AggregateStatus(hosts) ==
    LET NotPassed == {i \in DOMAIN hosts : hosts[i].status # "PASSED"}
    IN  IF NotPassed = {} THEN "PASSED"
        ELSE hosts[CHOOSE i \in NotPassed : \A j \in NotPassed : i <= j].status
\* one history row per play of the log
PlayRows(log) ==
    [k \in DOMAIN log.plays |->
       <<log.uuid, log.validation_id, AggregateStatus(log.hosts),
         log.plays[k].start, log.plays[k].time_elapsed>>]
\* the rows of the valid logs of a sequence of logs, log after log
RECURSIVE HistoryRows(_)
HistoryRows(ls) ==
    IF ls = <<>> THEN <<>>
    ELSE (IF FailsStructuralCheck(Head(ls)) THEN <<>> ELSE PlayRows(Head(ls)))
           \o HistoryRows(Tail(ls))
\* the logs of the directory read that are tagged with the validation v
ByUnit(v) ==
    SelectSeq(logs, LAMBDA l : l.dir = req.log_path /\ l.validation_id = v)
\* the logs a history request matches: those of each id given, in the order of
\* the ids, or every log of the directory read with the extension
RECURSIVE ByUnits(_)
ByUnits(ids) ==
    IF ids = <<>> THEN <<>> ELSE ByUnit(Head(ids)) \o ByUnits(Tail(ids))
MatchingLogs ==
    IF req.validation_ids.isNone THEN
        SelectSeq(logs, LAMBDA l : l.dir = req.log_path
                                     /\ l.ext = req.extension)
    ELSE IF ~IsList(req.validation_ids) THEN ByUnit(req.validation_ids.d)
    ELSE IF req.validation_ids.d = <<>> THEN
        SelectSeq(logs, LAMBDA l : l.dir = req.log_path
                                     /\ l.ext = req.extension)
    ELSE ByUnits(req.validation_ids.d)

\* C17: in show_history a log that fails the structural check (it does not
\* parse, or a play lacks its id, its duration.start or its
\* duration.time_elapsed) contributes no row and never makes the call fail,
\* and the valid logs read with it still contribute their rows.
C17_InvalidLogsAreLeftOut ==
    /\ pc # "raised"
    /\ \A i \in 1..(idx - 1) :
         i \in DOMAIN files =>
            IF FailsStructuralCheck(files[i])
            THEN RowsOf(files[i]) = <<>>
            ELSE Len(RowsOf(files[i])) >= Len(files[i].plays)
    /\ pc = "returned" => idx = Len(files) + 1

C17_Witness ==
    /\ pc = "returned"
    /\ Len(files) = 2
    /\ FailsStructuralCheck(files[1])
    /\ files[1].wellformed
    /\ ~FailsStructuralCheck(files[2])
    /\ Len(ret[2]) = Len(files[2].plays)
    /\ ret[2][1][1] = files[2].uuid

\* C18: show_history returns exactly one row (run id, unit id, aggregate
\* status, start, elapsed) per play of every valid matching log, in log order
\* and then play order; with ids given the matching logs are the logs of each
\* id, in the order of the ids, without ids they are all the logs with the
\* extension.
C18_OneRowPerPlayInOrder ==
    pc = "returned" =>
        /\ files = MatchingLogs
        /\ ret = <<column_name_history, HistoryRows(MatchingLogs)>>

C18_Witness ==
    /\ pc = "returned"
    /\ req.validation_ids = Py(<<"foo", "ntp">>)
    /\ Len(logs) = 2
    /\ logs[1].validation_id = "ntp"
    /\ Len(logs[1].plays) = 2
    /\ logs[2].validation_id = "foo"
    /\ Len(ret[2]) = 3
    /\ ret[2][1][1] = 2
    /\ ret[2][2][4] = "start1"
    /\ ret[2][3][4] = "start2"

----------------------------------------------------------------------------
(* Status detail *)

\* the logs a status request reads: those of the validation, else of the run
StatusLogs ==
    IF req.validation_id # NoneId /\ req.validation_id # ""
    THEN SelectSeq(logs, LAMBDA l : l.dir = req.log_path
                                      /\ l.validation_id = req.validation_id)
    ELSE SelectSeq(logs, LAMBDA l : l.dir = req.log_path
                                      /\ l.uuid = req.uuid.d)
\* the [task, host] pairs of a log whose outcome is the status asked for, in
\* the order of the log
RECURSIVE MatchingPairs(_)
MatchingPairs(tasks) ==
    IF tasks = <<>> THEN <<>>
    ELSE (IF Head(tasks).status = req.status
          THEN [h \in DOMAIN Head(tasks).hosts |->
                  [task |-> Head(tasks), host |-> Head(tasks).hosts[h]]]
          ELSE <<>>) \o MatchingPairs(Tail(tasks))
RECURSIVE StatusPairs(_)
StatusPairs(ls) ==
    IF ls = <<>> THEN <<>>
    ELSE (IF FailsStructuralCheck(Head(ls)) THEN <<>>
          ELSE MatchingPairs(Head(ls).tasks)) \o StatusPairs(Tail(ls))

\* C19: get_status returns one row (task name, host, status, payload) for
\* each task and host of the logs read whose outcome is the status asked
\* for, and no row for a task of another status.
C19_RowsOfTheStatusAskedFor ==
    pc = "returned" =>
        LET pairs == StatusPairs(StatusLogs)
        IN  /\ ret[1] = column_name_status
            /\ Len(ret[2]) = Len(pairs)
            /\ \A k \in DOMAIN pairs :
                 ret[2][k] = <<pairs[k].task.name, pairs[k].host.host,
                               req.status, pairs[k].host.payload>>
            /\ \A k \in DOMAIN ret[2] : ret[2][k][3] = req.status

C19_Witness ==
    /\ pc = "returned"
    /\ req.status = "FAILED"
    /\ Len(files) = 1
    /\ Len(files[1].tasks) = 2
    /\ files[1].tasks[1].status = "PASSED"
    /\ ret[2] = << <<"t2", "a", "FAILED", "msg1">>,
                   <<"t2", "b", "FAILED", "msg2">> >>

----------------------------------------------------------------------------
(* Further properties of the calls *)

\* C21: get_status called with neither a validation_id nor a uuid raises a
\* RuntimeError, for every status and log path, and reads no log file.
C21_NoIdentifierRaises ==
    (pc # "idle" /\ req.validation_id \in {NoneId, ""} /\ req.uuid.isNone) =>
        /\ pc = "raised"
        /\ err.type = "RuntimeError"
        /\ lookups = <<>>
        /\ files = <<>>
        /\ values = <<>>
        /\ ret = <<>>

C21_Witness ==
    /\ pc = "raised"
    /\ req.validation_id = NoneId
    /\ req.uuid.isNone
    /\ req.status = "PASSED"
    /\ req.log_path = OtherLogDir
    /\ Len(logs) = 2
    /\ lookups = <<>>

\* C25: the selection is idempotent: the ordered list of playbooks a call of
\* run_validations resolves is the one its names, groups and directory give
\* against the catalog, whatever the calls made before it have left behind.
C25_SelectionIsIdempotent ==
    pc \in {"loop", "returned"} =>
        /\ playbooks = Select(req).playbooks
        /\ \A r \in SeqRequests :
             ( /\ r.validation_name = req.validation_name
               /\ r.group = req.group
               /\ r.validations_dir = req.validations_dir )
             => Select(r).playbooks = playbooks

C25_Witness ==
    /\ ninv = 2
    /\ pc = "returned"
    /\ Len(playbooks) = 2
    /\ Len(records) = 4
    /\ records[1].playbook = records[3].playbook
    /\ records[2].playbook = records[4].playbook

\* C28: show_history called with one validation id as a str returns the
\* columns and rows it returns for the one-element list of that id: in both
\* cases the rows of the valid logs of that validation, in log order.
C28_StrIsOneElementList ==
    (pc = "returned" /\ ArgTruthy(req.validation_ids)) =>
        LET v == req.validation_ids
            AsList == IF IsList(v) THEN v.d ELSE <<v.d>>
        IN  Len(AsList) = 1 =>
              /\ files = ByUnit(AsList[1])
              /\ ret = <<column_name_history, HistoryRows(ByUnit(AsList[1]))>>

C28_Witness ==
    /\ pc = "returned"
    /\ req.validation_ids = PyStr("ntp")
    /\ Len(ret[2]) = 3
    /\ ret[2] = HistoryRows(ByUnits(<<"ntp">>))

\* the calls made so far have the limit the caller's limit_hosts gives them
C29_State ==
    \A j \in DOMAIN calls :
       LET u == PlayName(calls[j].playbook)
       IN  /\ ~HasRule(u) => calls[j].limit_hosts = req.limit_hosts
           /\ HasHostRule(u) =>
                calls[j].limit_hosts =
                    _skip_hosts(req.skip_list, u, req.limit_hosts)

\* C29: in a run of several validations the skip rule of one never changes
\* the host limit of another: a validation without a rule is run with the
\* caller's limit_hosts, one with a rule for a host with the limit computed
\* from the caller's limit_hosts, and the call changes neither skip_list nor
\* limit_hosts.
C29_SkipRulesDoNotLeak ==
    /\ []C29_State
    /\ [][ /\ req'.skip_list = req.skip_list
           /\ req'.limit_hosts = req.limit_hosts ]_vars

C29_Witness ==
    /\ pc = "returned"
    /\ Len(calls) = 2
    /\ HasHostRule(PlayName(calls[1].playbook))
    /\ ~HasRule(PlayName(calls[2].playbook))
    /\ StrTruthy(req.limit_hosts)
    /\ calls[1].limit_hosts # req.limit_hosts
    /\ calls[2].limit_hosts = req.limit_hosts

\* C30 (as claimed): in synchronous mode run_validations reads the results
\* from the log directory it gave to the engine as log_path, so the runs it
\* has just dispatched are found, for every log_path.
C30_ResultsReadFromLogPath ==
    (pc = "returned" /\ ~req.run_async /\ calls # <<>>) =>
        /\ \A i \in DOMAIN lookups :
             lookups[i].dir = EngineLogDir(req.log_path)
        /\ \A j \in DOMAIN calls :
             \E k \in DOMAIN ret : ret[k].UUID = calls[j].uuid

----------------------------------------------------------------------------
(* The run command *)

\* C27: when run_validations raises, the run command ends with a non-zero
\* exit status and the one error message, and with no partial output: no
\* result table is printed and no output log file is written.
C27_ErrorExitsWithoutOutput ==
    /\ pc = "exited" =>
         /\ client.exited
         /\ client.code # 0
         /\ client.stderr = <<err>>
         /\ err.type # "none"
         /\ client.stdout = <<>>
         /\ written = <<>>
    /\ err.type # "none" => pc \in {"raised", "exited"}
    /\ pc = "done" => client.code = 0 /\ client.stderr = <<>>

C27_Witness ==
    /\ pc = "exited"
    /\ client.output_log # NoneId
    /\ client.code = 1
    /\ \E n \in Range(req.validation_name.d) : n \in IdsOnDisk
    /\ \E n \in Range(req.validation_name.d) : n \in err.unknown

----------------------------------------------------------------------------
(* Parameters *)

\* C22: show_validations_parameters called with an output_format other than
\* 'json' or 'yaml' raises an error that names the format before any I/O: the
\* catalog is not looked up and, even with download_file, no file is created
\* or written.
C22_UnsupportedFormatRaisesFirst ==
    (pc # "idle" /\ req.output_format # "json" /\ req.output_format # "yaml")
      => /\ pc = "raised"
         /\ err.type = "RuntimeError"
         /\ err.arg = req.output_format
         /\ lookups = <<>>
         /\ playbooks = <<>>
         /\ written = <<>>
         /\ ret = <<>>

C22_Witness ==
    /\ pc = "raised"
    /\ req.output_format = "bar"
    /\ req.download_file = "/tmp/params"
    /\ req.validation = Py(<<"ntp">>)
    /\ err.arg = "bar"
    /\ written = <<>>

----------------------------------------------------------------------------
(* Validation definitions *)

\* C26 (as claimed): for every loaded validation the identifier comes from
\* the file name: get_id, the 'id' of get_metadata and the 'ID' of
\* get_formated_data are all the base name of the file without its
\* extension, whatever keys the metadata block of the playbook has.
C26_IdIsTheFileName ==
    pc = "returned" =>
        /\ ret.get_id = req.path.stem
        /\ DictGet(ret.get_metadata, "id") = req.path.stem
        /\ DictGet(ret.get_formated_data, "ID") = req.path.stem

----------------------------------------------------------------------------
(* Concurrent calls *)

\* the run ids of the engine calls of one call of run_validations
UuidsOf(cs) == {cs[j].uuid : j \in DOMAIN cs}

\* C23: when two calls of run_validations run at the same time on the same
\* log directory, in every interleaving of their steps each run has a
\* workspace and a log file of its own: no two runs share a workspace, no log
\* file is written twice, and a run of one call never uses what belongs to a
\* run of the other call.
C23_ConcurrentRunsDoNotCollide ==
    /\ UuidsOf(calls) \cap UuidsOf(other.calls) = {}
    /\ Cardinality(UuidsOf(calls)) = Len(calls)
    /\ Cardinality(UuidsOf(other.calls)) = Len(other.calls)
    /\ Cardinality(workspaces) = Len(calls) + Len(other.calls)
    /\ \A w1, w2 \in workspaces : w1.uuid = w2.uuid => w1 = w2
    /\ \A i, j \in DOMAIN logs :
         (logs[i].uuid = logs[j].uuid /\ logs[i].dir = logs[j].dir) => i = j
    /\ \A i \in DOMAIN logs :
         \/ \E j \in DOMAIN calls :
               /\ calls[j].uuid = logs[i].uuid
               /\ PlayName(calls[j].playbook) = logs[i].validation_id
         \/ \E j \in DOMAIN other.calls :
               /\ other.calls[j].uuid = logs[i].uuid
               /\ PlayName(other.calls[j].playbook) = logs[i].validation_id

C23_Witness ==
    /\ pc = "returned"
    /\ other.pc = "returned"
    /\ Len(calls) = 2
    /\ Len(other.calls) = 2
    /\ calls[1].uuid < other.calls[1].uuid
    /\ other.calls[1].uuid < calls[2].uuid
    /\ calls[2].uuid < other.calls[2].uuid
    /\ Len(logs) = 4

----------------------------------------------------------------------------
(* The log directory *)

\* C24: the log directory is append-only: in every step of any sequence of
\* run_validations, show_history, get_status and show_validations calls the
\* log files there were are still there, unchanged; the queries create,
\* rewrite and delete nothing; a run only adds files named after run ids
\* generated in that step.
C24_LogDirectoryIsAppendOnly ==
    [][ /\ Len(logs') >= Len(logs)
        /\ SubSeq(logs', 1, Len(logs)) = logs
        /\ \A i \in (Len(logs) + 1)..Len(logs') :
             /\ IsRun(req)
             /\ logs'[i].uuid = nextUuid
             /\ nextUuid' > nextUuid
             /\ \A j \in DOMAIN logs : logs[j].uuid # logs'[i].uuid
        /\ ~IsRun(req) => logs' = logs ]_vars

C24_Witness ==
    /\ ninv = 2
    /\ pc = "returned"
    /\ IsHistory(req)
    /\ Len(logs) = 3
    /\ ~logs[1].wellformed
    /\ logs[3].uuid = 3
    /\ Len(ret[2]) = 3

====
